---- MODULE Spec2Model ----
(***************************************************************************)
(* Notepad2 lexers for Dart, Haxe and WinHex: the per-character scanners   *)
(* (ColouriseDartDoc, ColouriseHaxeDoc, ColouriseWinHexDoc) and the fold   *)
(* passes (FoldDartDoc, FoldHaxeDoc), as state machines over a document    *)
(* held by the host (styles, line states and fold levels per line).        *)
(* One action is one iteration of a scanner's or fold pass's main loop.    *)
(* Characters are one-character strings; positions and lines are 0-based   *)
(* as in the code, the arrays are 1-based sequences.  The documents are    *)
(* ASCII with LF line ends and no upper-case task-marker words.            *)
(***************************************************************************)
EXTENDS Integers, Sequences, FiniteSets, TLC

VARIABLES
    lexer,       \* which lexer module the host selected: "dart", "haxe", "winhex"
    doc,         \* the text buffer
    foldProp,    \* the "fold" property (read by ColouriseWinHexDoc)
    pc,          \* "idle", "lex" (inside a Colourise call), "fold" (inside a Fold call)
    sc,          \* StyleContext and locals of the running Colourise call
    fd,          \* locals of the running Fold call
    styles,      \* per-character style held by the host (Unstyled before the first pass)
    lineState,   \* per-line integer (Line Context Record)
    levels,      \* per-line fold record
    endStyled,   \* the host has lexed [0, endStyled)
    endFolded    \* the host has folded the lines before position endFolded

vars == <<lexer, doc, foldProp, pc, sc, fd, styles, lineState, levels, endStyled, endFolded>>

-----------------------------------------------------------------------------
(* Bounds of the model *)

\* a document is a concatenation of at most MaxPieces pieces of one family
MaxPieces == 3

-----------------------------------------------------------------------------
(* Integers as bit strings *)

RECURSIVE BitAnd(_, _)
BitAnd(a, b) ==
    IF a = 0 \/ b = 0 THEN 0
    ELSE (a % 2) * (b % 2) + 2 * BitAnd(a \div 2, b \div 2)

RECURSIVE BitOr(_, _)
BitOr(a, b) ==
    IF a = 0 THEN b
    ELSE IF b = 0 THEN a
    ELSE (IF a % 2 = 1 \/ b % 2 = 1 THEN 1 ELSE 0) + 2 * BitOr(a \div 2, b \div 2)

Shl(a, n) == a * (2 ^ n)
Shr(a, n) == a \div (2 ^ n)
Min(a, b) == IF a < b THEN a ELSE b

-----------------------------------------------------------------------------
(* Characters *)

NUL == "NUL"      \* what a read outside the buffer yields
LF == "\n"
SPACE == " "
TAB == "\t"
DQ == "\""
SQ == "'"
BSL == "\\"

LowerChars == {"a","b","c","d","e","f","g","h","i","j","k","l","m",
               "n","o","p","q","r","s","t","u","v","w","x","y","z"}
UpperSeq == <<"A","B","C","D","E","F","G","H","I","J","K","L","M",
              "N","O","P","Q","R","S","T","U","V","W","X","Y","Z">>
LowerSeq == <<"a","b","c","d","e","f","g","h","i","j","k","l","m",
              "n","o","p","q","r","s","t","u","v","w","x","y","z">>
UpperChars == {UpperSeq[i] : i \in 1..26}
DigitChars == {"0","1","2","3","4","5","6","7","8","9"}
OctalChars == {"0","1","2","3","4","5","6","7"}
HexChars == DigitChars \cup {"a","b","c","d","e","f","A","B","C","D","E","F"}

IsEOLChar(ch) == ch \in {LF, "\r"}
isspacechar(ch) == ch \in {SPACE, TAB, LF, "\r", "\f"}
IsWhiteSpace(ch) == isspacechar(ch)
IsADigit(ch) == ch \in DigitChars
IsAlpha(ch) == ch \in LowerChars \cup UpperChars
IsLowerCase(ch) == ch \in LowerChars
IsUpperCase(ch) == ch \in UpperChars
IsAlphaNumeric(ch) == IsAlpha(ch) \/ IsADigit(ch)
IsHexDigit(ch) == ch \in HexChars
IsOctalDigit(ch) == ch \in OctalChars
IsOctalOrHex(ch, hex) == IF hex THEN IsHexDigit(ch) ELSE IsOctalDigit(ch)
IsIdentifierChar(ch) == IsAlphaNumeric(ch) \/ ch = "_"
IsIdentifierStart(ch) == IsAlpha(ch) \/ ch = "_"
\* the documents are ASCII, so the "Ex" forms add nothing (ch >= 0x80)
IsIdentifierCharEx(ch) == IsIdentifierChar(ch)
IsIdentifierStartEx(ch) == IsIdentifierStart(ch)
IsAGraphic(ch) == ch \notin {NUL, SPACE, TAB, LF, "\r", "\f"}
ToLowerChar(ch) ==
    IF ch \in UpperChars THEN LowerSeq[CHOOSE i \in 1..26 : UpperSeq[i] = ch] ELSE ch
ToLowerStr(s) == [i \in 1..Len(s) |-> ToLowerChar(s[i])]
StrStartsWith(s, p) == Len(s) >= Len(p) /\ SubSeq(s, 1, Len(p)) = p
IsNumberStart(ch, chNext) == IsADigit(ch) \/ (ch = "." /\ IsADigit(chNext))
IsDecimalNumber(chPrev, ch, chNext) ==
    \/ IsIdentifierChar(ch)
    \/ (ch \in {"+", "-"} /\ chPrev \in {"e", "E"})
    \/ (ch = "." /\ chNext # ".")
IsNumberStartEx(chPrev, ch, chNext) ==
    IsADigit(ch) \/ (chPrev # "." /\ ch = "." /\ IsADigit(chNext))
IsDecimalNumberEx(chPrev, ch, chNext) ==
    \/ IsIdentifierChar(ch)
    \/ (ch \in {"+", "-"} /\ chPrev \in {"e", "E"})
    \/ (chPrev # "." /\ ch = "." /\ chNext # ".")
IsJumpLabelPrevChar(ch) == ch \in {NUL, ";", "{", "}"}
IsCommentTagPrev(ch) == ch \in {NUL, SPACE, TAB, LF, "\r", "\f", "/", "*", "!"}

-----------------------------------------------------------------------------
(* The buffer as the Accessor shows it *)

Unstyled == -1
SC_FOLDLEVELBASE == 1024
SC_FOLDLEVELHEADERFLAG == 8192

Length == Len(doc)
CharAt(p) == IF p >= 0 /\ p < Len(doc) THEN doc[p + 1] ELSE NUL
LineStarts == {0} \cup {p \in 1..Len(doc) : doc[p] = LF}
NumLines == Cardinality(LineStarts)
GetLine(p) == Cardinality({q \in LineStarts : q <= p}) - 1
LineStart(l) ==
    IF l < 0 THEN 0
    ELSE IF l >= NumLines THEN Len(doc)
    ELSE CHOOSE p \in LineStarts : Cardinality({q \in LineStarts : q < p}) = l
StyleAt(c, p) ==
    IF p >= 0 /\ p < Len(doc) /\ c.styles[p + 1] # Unstyled THEN c.styles[p + 1] ELSE 0
GetLineState(c, l) == IF l >= 0 /\ l < NumLines THEN c.lineState[l + 1] ELSE 0
SetLineState(c, l, v) ==
    IF l >= 0 /\ l < NumLines THEN [c EXCEPT !.lineState[l + 1] = v] ELSE c
LevelAt(c, l) == IF l >= 0 /\ l < NumLines THEN c.levels[l + 1] ELSE SC_FOLDLEVELBASE
SetLevel(c, l, v) ==
    IF l >= 0 /\ l < NumLines THEN [c EXCEPT !.levels[l + 1] = v] ELSE c
\* ColourTo(pos, style): styles [startSeg, pos] and moves the segment start
ColourTo(c, p, style) ==
    [c EXCEPT !.styles = [i \in 1..Len(doc) |->
                            IF i - 1 >= c.startSeg /\ i - 1 <= p THEN style ELSE c.styles[i]],
              !.startSeg = p + 1]
RECURSIVE LexGetNextChar(_, _)
LexGetNextChar(p, end) ==
    IF p >= end THEN NUL
    ELSE IF ~IsWhiteSpace(CharAt(p)) THEN CharAt(p)
    ELSE LexGetNextChar(p + 1, end)
RECURSIVE LexSkipSpaceTab(_, _)
LexSkipSpaceTab(p, end) ==
    IF p < end /\ CharAt(p) \in {SPACE, TAB} THEN LexSkipSpaceTab(p + 1, end) ELSE p

-----------------------------------------------------------------------------
(* StyleContext *)

AtLineEndAt(p, line, lineStartNext) ==
    IF line < GetLine(Len(doc)) THEN p >= lineStartNext - 1 ELSE p >= lineStartNext

\* the constructor: fields of the context over the locals and arrays in base
SCNew(base, startPos, lengthDoc, initStyle) ==
    LET line == GetLine(startPos) IN
    [base EXCEPT
        !.currentPos = startPos,
        !.endPos = startPos + lengthDoc,
        !.startSeg = startPos,
        !.state = initStyle,
        !.currentLine = line,
        !.lineStartNext = LineStart(line + 1),
        !.atLineStart = (LineStart(line) = startPos),
        !.chPrev = NUL,
        !.ch = CharAt(startPos),
        !.chNext = CharAt(startPos + 1),
        !.atLineEnd = AtLineEndAt(startPos, line, LineStart(line + 1))]

More(c) == c.currentPos < c.endPos

Forward(c) ==
    IF c.currentPos < c.endPos
    THEN LET line == IF c.atLineEnd THEN c.currentLine + 1 ELSE c.currentLine
             lsn == IF c.atLineEnd THEN LineStart(line + 1) ELSE c.lineStartNext
             p == c.currentPos + 1
         IN [c EXCEPT
                !.atLineStart = c.atLineEnd,
                !.currentLine = line,
                !.lineStartNext = lsn,
                !.chPrev = c.ch,
                !.currentPos = p,
                !.ch = c.chNext,
                !.chNext = CharAt(p + 1),
                !.atLineEnd = AtLineEndAt(p, line, lsn)]
    ELSE [c EXCEPT
                !.atLineStart = FALSE,
                !.chPrev = SPACE,
                !.ch = SPACE,
                !.chNext = SPACE,
                !.atLineEnd = TRUE]

RECURSIVE ForwardN(_, _)
ForwardN(c, n) == IF n <= 0 THEN c ELSE ForwardN(Forward(c), n - 1)
Advance(c, n) == ForwardN(c, n)

SetState(c, s) == [ColourTo(c, c.currentPos - 1, c.state) EXCEPT !.state = s]
ChangeState(c, s) == [c EXCEPT !.state = s]
ForwardSetState(c, s) == SetState(Forward(c), s)
Complete(c) == ColourTo(c, c.currentPos - 1, c.state)
Match(c, a) == c.ch = a
Match2(c, a, b) == c.ch = a /\ c.chNext = b
MatchNext(c) == c.chNext = c.ch /\ CharAt(c.currentPos + 2) = c.ch
MatchNext2(c, a, b) == c.chNext = a /\ CharAt(c.currentPos + 2) = b
LengthCurrent(c) == c.currentPos - c.startSeg
GetCurrent(c, size) ==
    SubSeq(doc, c.startSeg + 1, Min(c.currentPos, c.startSeg + size - 1))
GetCurrentLowered(c, size) == ToLowerStr(GetCurrent(c, size))
GetDocNextChar(c, ignoreCurrent) ==
    IF ~ignoreCurrent /\ ~IsWhiteSpace(c.ch) THEN c.ch
    ELSE IF ~IsWhiteSpace(c.chNext) THEN c.chNext
    ELSE LexGetNextChar(c.currentPos + 2, Len(doc))
GetLineNextChar(c, ignoreCurrent) ==
    IF ~ignoreCurrent /\ ~IsWhiteSpace(c.ch) THEN c.ch
    ELSE IF c.currentPos + 1 = c.lineStartNext THEN NUL
    ELSE IF ~IsWhiteSpace(c.chNext) THEN c.chNext
    ELSE LexGetNextChar(c.currentPos + 2, c.lineStartNext)

-----------------------------------------------------------------------------
(* Records *)

\* a call works on the host's arrays through its Accessor: Bind gives the call's
\* record the arrays, Locals takes them out again
Bind(s) == [s EXCEPT !.styles = styles, !.lineState = lineState, !.levels = levels]
Locals(r) == [r EXCEPT !.styles = <<>>, !.lineState = <<>>, !.levels = <<>>]

\* the locals of a Colourise call before its prologue ran
ScIdle ==
    [currentPos |-> 0, endPos |-> 0, startSeg |-> 0, state |-> 0,
     currentLine |-> 0, lineStartNext |-> 0, atLineStart |-> TRUE, atLineEnd |-> FALSE,
     chPrev |-> NUL, ch |-> NUL, chNext |-> NUL,
     lineStateLineType |-> 0, commentLevel |-> 0, kwType |-> 0,
     chBeforeIdentifier |-> NUL, nestedState |-> <<>>,
     visibleChars |-> 0, chBefore |-> NUL, visibleCharsBefore |-> 0,
     chPrevNonWhite |-> NUL, simpleStringInterpolation |-> FALSE,
     outerState |-> 0, digitsLeft |-> 0, brace |-> FALSE, hex |-> FALSE,
     insideRegexRange |-> FALSE, cont |-> FALSE,
     fold |-> FALSE, levelCurrent |-> SC_FOLDLEVELBASE, levelNext |-> SC_FOLDLEVELBASE,
     styles |-> <<>>, lineState |-> <<>>, levels |-> <<>>]

\* the locals of a Fold call before its prologue ran
FdIdle ==
    [startPos |-> 0, endPos |-> 0, lineCurrent |-> 0,
     foldPrev |-> [lineComment |-> 0, packageImport |-> 0],
     foldCurrent |-> [lineComment |-> 0, packageImport |-> 0],
     levelCurrent |-> SC_FOLDLEVELBASE, levelNext |-> SC_FOLDLEVELBASE,
     lineStartNext |-> 0, ch |-> NUL, chNext |-> NUL,
     stylePrev |-> 0, styleNext |-> 0, style |-> 0,
     visibleChars |-> 0,
     styles |-> <<>>, lineState |-> <<>>, levels |-> <<>>]

-----------------------------------------------------------------------------
(* WinHex: ColouriseWinHexDoc *)

SCE_WINHEX_DEFAULT == 0
SCE_WINHEX_COMMENTLINE == 1
SCE_WINHEX_NUMBER == 2
SCE_WINHEX_STRING == 3
SCE_WINHEX_OPERATOR == 4
SCE_WINHEX_IDENTIFIER == 5
SCE_WINHEX_KEYWORD == 6
SCE_WINHEX_TYPE == 7
SCE_WINHEX_COMMAND == 8

\* keywordLists of the WinHex module: Keyword, Type, Command (chosen to overlap)
WinHexKeywordLists ==
    << {<<"i","f">>, <<"e","n","d">>, <<"k">>, <<"b","e","g","i","n">>},
       {<<"k">>, <<"t">>, <<"e","n","d">>, <<"s","e","c","t","i","o","n">>},
       {<<"k">>, <<"t">>, <<"c">>, <<"e","n","d","i","f">>, <<"i","f","e","q","u","a","l">>} >>

WinHexInList(i, s) == s \in WinHexKeywordLists[i + 1]

\* the fold record of a line
FoldRecord(levelUse, levelNext) ==
    LET lev == BitOr(levelUse, Shl(levelNext, 16))
    IN IF levelUse < levelNext THEN BitOr(lev, SC_FOLDLEVELHEADERFLAG) ELSE lev

WinHexPrologue(base, startPos, lengthDoc, initStyle, fold) ==
    LET c == SCNew(base, startPos, lengthDoc, initStyle)
        lc == IF c.currentLine > 0 THEN Shr(LevelAt(c, c.currentLine - 1), 16)
              ELSE SC_FOLDLEVELBASE
    IN [c EXCEPT !.fold = fold, !.levelCurrent = lc, !.levelNext = lc, !.visibleChars = 0]

WinHexClassify(c, s) ==
    IF WinHexInList(0, s) THEN ChangeState(c, SCE_WINHEX_KEYWORD)
    ELSE IF WinHexInList(1, s) THEN ChangeState(c, SCE_WINHEX_TYPE)
    ELSE IF WinHexInList(2, s) THEN ChangeState(c, SCE_WINHEX_COMMAND)
    ELSE c

\* a faulty variant of WinHexIdentifier: a keyword counts wherever it stands on its line
WinHexIdentifierAnywhere(c) ==
    IF ~IsIdentifierChar(c.ch) /\ c.ch # "-"
    THEN LET s == GetCurrentLowered(c, 64)
             c1 == WinHexClassify(c, s)
             c2 == IF c1.state # SCE_WINHEX_IDENTIFIER
                   THEN IF StrStartsWith(s, <<"i","f">>)
                           \/ s \in {<<"b","e","g","i","n">>, <<"s","e","c","t","i","o","n">>}
                        THEN [c1 EXCEPT !.levelNext = @ + 1]
                        ELSE IF StrStartsWith(s, <<"e","n","d">>)
                        THEN [c1 EXCEPT !.levelNext = @ - 1]
                        ELSE c1
                   ELSE c1
         IN SetState(c2, SCE_WINHEX_DEFAULT)
    ELSE c

WinHexIdentifier(c) ==
    IF ~IsIdentifierChar(c.ch) /\ c.ch # "-"
    THEN LET s == GetCurrentLowered(c, 64)
             c1 == WinHexClassify(c, s)
             c2 == IF c1.state # SCE_WINHEX_IDENTIFIER /\ c1.visibleChars = LengthCurrent(c1)
                   THEN IF StrStartsWith(s, <<"i","f">>)
                           \/ s \in {<<"b","e","g","i","n">>, <<"s","e","c","t","i","o","n">>}
                        THEN [c1 EXCEPT !.levelNext = @ + 1]
                        ELSE IF StrStartsWith(s, <<"e","n","d">>)
                        THEN [c1 EXCEPT !.levelNext = @ - 1]
                        ELSE c1
                   ELSE c1
         IN SetState(c2, SCE_WINHEX_DEFAULT)
    ELSE c

WinHexString(c) ==
    IF c.atLineStart THEN SetState(c, SCE_WINHEX_DEFAULT)
    ELSE IF c.ch = DQ THEN ForwardSetState(c, SCE_WINHEX_DEFAULT)
    ELSE c

\* the switch on sc.state
WinHexSwitch(c) ==
    CASE c.state = SCE_WINHEX_OPERATOR -> SetState(c, SCE_WINHEX_DEFAULT)
      [] c.state = SCE_WINHEX_NUMBER ->
            IF ~IsAlphaNumeric(c.ch) THEN SetState(c, SCE_WINHEX_DEFAULT) ELSE c
      [] c.state = SCE_WINHEX_IDENTIFIER -> WinHexIdentifier(c)
      [] c.state = SCE_WINHEX_STRING -> WinHexString(c)
      [] c.state = SCE_WINHEX_COMMENTLINE ->
            IF c.atLineStart THEN SetState(c, SCE_WINHEX_DEFAULT) ELSE c
      [] OTHER -> c

\* the openers tried in the default state
WinHexDefault(c) ==
    IF c.state # SCE_WINHEX_DEFAULT THEN c
    ELSE IF Match2(c, "/", "/") THEN SetState(c, SCE_WINHEX_COMMENTLINE)
    ELSE IF c.ch = DQ THEN SetState(c, SCE_WINHEX_STRING)
    ELSE IF IsADigit(c.ch) THEN SetState(c, SCE_WINHEX_NUMBER)
    ELSE IF IsIdentifierStart(c.ch) THEN SetState(c, SCE_WINHEX_IDENTIFIER)
    ELSE IF IsAGraphic(c.ch) /\ c.ch # BSL
    THEN LET c1 == SetState(c, SCE_WINHEX_OPERATOR)
         IN IF c.ch = "{" THEN [c1 EXCEPT !.levelNext = @ + 1]
            ELSE IF c.ch = "}" THEN [c1 EXCEPT !.levelNext = @ - 1]
            ELSE c1
    ELSE c

\* the end of an iteration: visible characters, the fold record at a line end, Forward
WinHexLineEnd(c) ==
    LET c1 == IF ~isspacechar(c.ch) THEN [c EXCEPT !.visibleChars = @ + 1] ELSE c
        c2 == IF c1.atLineEnd
              THEN LET c3 == [c1 EXCEPT !.visibleChars = 0]
                   IN IF c3.fold
                      THEN [SetLevel(c3, c3.currentLine, FoldRecord(c3.levelCurrent, c3.levelNext))
                                EXCEPT !.levelCurrent = c3.levelNext]
                      ELSE c3
              ELSE c1
    IN Forward(c2)

\* one iteration of while (sc.More())
WinHexStep(c) == WinHexLineEnd(WinHexDefault(WinHexSwitch(c)))

-----------------------------------------------------------------------------
(* LexerUtils: nested-state packing, look-back, task markers *)

DefaultNestedStateValueBit == 3
DefaultMaxNestedStateCount == 4
DefaultNestedStateCountBit == 3
DefaultNestedStateBaseStyle == 10

RECURSIVE PackValues(_)
PackValues(kept) ==
    IF kept = <<>> THEN 0
    ELSE BitOr(IF Head(kept) = 0 THEN 0 ELSE Head(kept) - DefaultNestedStateBaseStyle,
               Shl(PackValues(Tail(kept)), DefaultNestedStateValueBit))

\* the count in the low bits, above it the topmost entries, the deepest kept one lowest
PackLineState(states) ==
    LET count == Min(Len(states), DefaultMaxNestedStateCount)
        kept == SubSeq(states, Len(states) - count + 1, Len(states))
    IN BitOr(Shl(PackValues(kept), DefaultNestedStateCountBit), count)

RECURSIVE UnpackValues(_, _)
UnpackValues(v, count) ==
    IF count = 0 THEN <<>>
    ELSE LET e == BitAnd(v, 2 ^ DefaultNestedStateValueBit - 1)
         IN <<IF e = 0 THEN 0 ELSE e + DefaultNestedStateBaseStyle>>
            \o UnpackValues(Shr(v, DefaultNestedStateValueBit), count - 1)

\* UnpackLineState(lineState, states) on an empty vector
UnpackLineState(v) ==
    UnpackValues(Shr(v, DefaultNestedStateCountBit),
                 Min(BitAnd(v, 2 ^ DefaultNestedStateCountBit - 1), DefaultMaxNestedStateCount))

TakeAndPop(states) == [value |-> states[Len(states)], rest |-> SubSeq(states, 1, Len(states) - 1)]

\* the character of the nearest earlier position whose style is above maxSpaceStyle
RECURSIVE LookbackNonWhite(_, _, _, _)
LookbackNonWhite(c, startPos, maxSpaceStyle, chPrevNonWhite) ==
    LET p == startPos - 1
    IN IF StyleAt(c, p) > maxSpaceStyle THEN CharAt(p)
       ELSE IF p = 0 THEN chPrevNonWhite
       ELSE LookbackNonWhite(c, p, maxSpaceStyle, chPrevNonWhite)

\* a task marker is an upper-case word (TODO, FIXME, ...): none in these documents
HighlightTaskMarker(c) == IsUpperCase(c.ch) /\ FALSE

-----------------------------------------------------------------------------
(* Dart: ColouriseDartDoc *)

SCE_DART_DEFAULT == 0
SCE_DART_COMMENTLINE == 1
SCE_DART_COMMENTLINEDOC == 2
SCE_DART_COMMENTBLOCK == 3
SCE_DART_COMMENTBLOCKDOC == 4
SCE_DART_TASKMARKER == 5
SCE_DART_OPERATOR == 6
SCE_DART_OPERATOR2 == 7
SCE_DART_NUMBER == 8
SCE_DART_IDENTIFIER == 9
SCE_DART_ESCAPECHAR == 10
SCE_DART_STRING_SQ == 11
SCE_DART_STRING_DQ == 12
SCE_DART_TRIPLE_STRING_SQ == 13
SCE_DART_TRIPLE_STRING_DQ == 14
SCE_DART_RAWSTRING_SQ == 15
SCE_DART_RAWSTRING_DQ == 16
SCE_DART_TRIPLE_RAWSTRING_SQ == 17
SCE_DART_TRIPLE_RAWSTRING_DQ == 18
SCE_DART_VARIABLE == 19
SCE_DART_VARIABLE2 == 20
SCE_DART_METADATA == 21
SCE_DART_SYMBOL_IDENTIFIER == 22
SCE_DART_SYMBOL_OPERATOR == 23
SCE_DART_WORD == 24
SCE_DART_WORD2 == 25
SCE_DART_CLASS == 26
SCE_DART_ENUM == 27
SCE_DART_FUNCTION == 28
SCE_DART_FUNCTION_DEFINITION == 29
SCE_DART_KEY == 30
SCE_DART_LABEL == 31

DartLineStateMaskLineComment == 1
DartLineStateMaskImport == 2

DartKwNone == SCE_DART_DEFAULT
DartKwClass == SCE_DART_CLASS
DartKwEnum == SCE_DART_ENUM
DartKwLabel == SCE_DART_LABEL
DartKwReturn == 64

\* keywordLists of the Dart module: Keyword, Type, Class, Enumeration (chosen to overlap)
DartKeywordLists ==
    << {<<"k">>, <<"i","s">>, <<"n","e","w">>, <<"e","n","u","m">>, <<"c","l","a","s","s">>,
        <<"p","a","r","t">>, <<"i","m","p","o","r","t">>, <<"b","r","e","a","k">>,
        <<"r","e","t","u","r","n">>},
       {<<"k">>, <<"t">>},
       {<<"k">>, <<"t">>, <<"c">>},
       {<<"k">>, <<"t">>, <<"c">>, <<"n">>} >>

DartInList(i, s) == s \in DartKeywordLists[i + 1]

IsDeclarableOperator(ch) ==
    ch \in {"+", "-", "*", "/", "%", "~", "&", "|", "^", "<", ">", "=", "[", "]"}
DartIsSpaceEquiv(state) == state <= SCE_DART_TASKMARKER
IsTripleString(state) == BitAnd(state - SCE_DART_STRING_SQ, 3) > 1
GetStringQuote(state) == IF BitAnd(state, 1) = 1 THEN SQ ELSE DQ

\* a faulty variant of DartEncodeLineState: the comment level starts one bit too high
DartEncodeLineStateWide(commentLevel, lineStateLineType, nestedState) ==
    LET v == BitOr(Shl(commentLevel, 3), lineStateLineType)
    IN IF nestedState # <<>> THEN BitOr(v, Shl(PackLineState(nestedState), 8)) ELSE v

\* the line state as the code at a line end builds it
DartEncodeLineState(commentLevel, lineStateLineType, nestedState) ==
    LET v == BitOr(Shl(commentLevel, 2), lineStateLineType)
    IN IF nestedState # <<>> THEN BitOr(v, Shl(PackLineState(nestedState), 8)) ELSE v

\* the fields the prologue reads out of the line state of the line before
DartDecodeCommentLevel(v) == BitAnd(Shr(v, 2), 63)
DartDecodeNestedState(v) == IF Shr(v, 8) # 0 THEN UnpackLineState(Shr(v, 8)) ELSE <<>>

DartPrologue(base, startPos, lengthDoc, initStyle) ==
    LET c0 == SCNew(base, startPos, lengthDoc, initStyle)
        v == GetLineState(c0, c0.currentLine - 1)
        c1 == IF c0.currentLine > 0
              THEN [c0 EXCEPT !.commentLevel = DartDecodeCommentLevel(v),
                              !.nestedState = DartDecodeNestedState(v)]
              ELSE c0
    IN IF startPos = 0
       THEN IF Match2(c1, "#", "!")
            THEN [Forward(SetState(c1, SCE_DART_COMMENTLINE))
                     EXCEPT !.lineStateLineType = DartLineStateMaskLineComment]
            ELSE c1
       ELSE IF DartIsSpaceEquiv(initStyle)
            THEN [c1 EXCEPT !.chPrevNonWhite =
                                LookbackNonWhite(c1, startPos, SCE_DART_TASKMARKER, NUL)]
            ELSE c1

\* an identifier that is in the Keyword list
DartKeyword(c, s) ==
    LET c1 == ChangeState(c, SCE_DART_WORD)
        c2 == IF s \in {<<"i","m","p","o","r","t">>, <<"p","a","r","t">>}
              THEN IF c1.visibleChars = LengthCurrent(c1)
                   THEN [c1 EXCEPT !.lineStateLineType = DartLineStateMaskImport]
                   ELSE c1
              ELSE IF s \in {<<"c","l","a","s","s">>, <<"e","x","t","e","n","d","s">>,
                             <<"i","m","p","l","e","m","e","n","t","s">>, <<"n","e","w">>,
                             <<"t","h","r","o","w">>, <<"w","i","t","h">>, <<"a","s">>,
                             <<"i","s">>, <<"o","n">>}
              THEN [c1 EXCEPT !.kwType = DartKwClass]
              ELSE IF s = <<"e","n","u","m">>
              THEN [c1 EXCEPT !.kwType = DartKwEnum]
              ELSE IF s \in {<<"b","r","e","a","k">>, <<"c","o","n","t","i","n","u","e">>}
              THEN [c1 EXCEPT !.kwType = DartKwLabel]
              ELSE IF s \in {<<"r","e","t","u","r","n">>, <<"a","w","a","i","t">>,
                             <<"y","i","e","l","d">>}
              THEN [c1 EXCEPT !.kwType = DartKwReturn]
              ELSE c1
    IN IF c2.kwType > DartKwNone /\ c2.kwType < DartKwReturn
          /\ ~IsIdentifierStartEx(GetLineNextChar(c2, FALSE))
       THEN [c2 EXCEPT !.kwType = DartKwNone]
       ELSE c2

\* an identifier in no list that is not followed by ':' or '.'
\* a faulty variant of DartContextual: a pending return flag is not looked at
DartContextualNoReturn(c) ==
    IF c.kwType > DartKwNone /\ c.kwType < DartKwReturn
    THEN ChangeState(c, c.kwType)
    ELSE LET chNext == GetDocNextChar(c, c.ch = "?")
         IN IF chNext = "("
            THEN IF IsIdentifierCharEx(c.chBefore) \/ c.chBefore = "]"
                 THEN ChangeState(c, SCE_DART_FUNCTION_DEFINITION)
                 ELSE ChangeState(c, SCE_DART_FUNCTION)
            ELSE IF (c.chBeforeIdentifier = "<" /\ chNext \in {">", "<"})
                    \/ IsIdentifierStartEx(chNext)
            THEN ChangeState(c, SCE_DART_CLASS)
            ELSE c

\* the contextual styles of an identifier that is in no list (LexDart.cxx:212-238)
DartContextual(c) ==
    IF c.kwType > DartKwNone /\ c.kwType < DartKwReturn
    THEN ChangeState(c, c.kwType)
    ELSE LET chNext == GetDocNextChar(c, c.ch = "?")
         IN IF chNext = "("
            THEN IF c.kwType # DartKwReturn /\ (IsIdentifierCharEx(c.chBefore) \/ c.chBefore = "]")
                 THEN ChangeState(c, SCE_DART_FUNCTION_DEFINITION)
                 ELSE ChangeState(c, SCE_DART_FUNCTION)
            ELSE IF (c.chBeforeIdentifier = "<" /\ chNext \in {">", "<"})
                    \/ IsIdentifierStartEx(chNext)
            THEN ChangeState(c, SCE_DART_CLASS)
            ELSE c

\* a faulty variant of DartClassify: before ':' a lexeme that is neither key nor label
\* still takes the pending flag or the function styles
DartClassifyColonFlag(c) ==
    LET s == GetCurrent(c, 128)
        c1 == IF DartInList(0, s) THEN DartKeyword(c, s)
              ELSE IF DartInList(1, s) THEN ChangeState(c, SCE_DART_WORD2)
              ELSE IF DartInList(2, s) THEN ChangeState(c, SCE_DART_CLASS)
              ELSE IF DartInList(3, s) THEN ChangeState(c, SCE_DART_ENUM)
              ELSE IF c.ch = ":"
              THEN IF c.chBefore \in {",", "{"} THEN ChangeState(c, SCE_DART_KEY)
                   ELSE IF IsJumpLabelPrevChar(c.chBefore) THEN ChangeState(c, SCE_DART_LABEL)
                   ELSE DartContextual(c)
              ELSE IF c.ch # "." THEN DartContextual(c)
              ELSE c
    IN IF c1.state # SCE_DART_WORD /\ c1.ch # "."
       THEN [c1 EXCEPT !.kwType = DartKwNone]
       ELSE c1

\* a faulty variant of DartClassify: the Type list is tried before the Keyword list
DartClassifyTypeFirst(c) ==
    LET s == GetCurrent(c, 128)
        c1 == IF DartInList(1, s) THEN ChangeState(c, SCE_DART_WORD2)
              ELSE IF DartInList(0, s) THEN DartKeyword(c, s)
              ELSE IF DartInList(2, s) THEN ChangeState(c, SCE_DART_CLASS)
              ELSE IF DartInList(3, s) THEN ChangeState(c, SCE_DART_ENUM)
              ELSE IF c.ch = ":"
              THEN IF c.chBefore \in {",", "{"} THEN ChangeState(c, SCE_DART_KEY)
                   ELSE IF IsJumpLabelPrevChar(c.chBefore) THEN ChangeState(c, SCE_DART_LABEL)
                   ELSE c
              ELSE IF c.ch # "." THEN DartContextual(c)
              ELSE c
    IN IF c1.state # SCE_DART_WORD /\ c1.ch # "."
       THEN [c1 EXCEPT !.kwType = DartKwNone]
       ELSE c1

\* case SCE_DART_IDENTIFIER once the lexeme is complete
DartClassify(c) ==
    LET s == GetCurrent(c, 128)
        c1 == IF DartInList(0, s) THEN DartKeyword(c, s)
              ELSE IF DartInList(1, s) THEN ChangeState(c, SCE_DART_WORD2)
              ELSE IF DartInList(2, s) THEN ChangeState(c, SCE_DART_CLASS)
              ELSE IF DartInList(3, s) THEN ChangeState(c, SCE_DART_ENUM)
              ELSE IF c.ch = ":"
              THEN IF c.chBefore \in {",", "{"} THEN ChangeState(c, SCE_DART_KEY)
                   ELSE IF IsJumpLabelPrevChar(c.chBefore) THEN ChangeState(c, SCE_DART_LABEL)
                   ELSE c
              ELSE IF c.ch # "." THEN DartContextual(c)
              ELSE c
    IN IF c1.state # SCE_DART_WORD /\ c1.ch # "."
       THEN [c1 EXCEPT !.kwType = DartKwNone]
       ELSE c1

\* cases IDENTIFIER, VARIABLE, VARIABLE2, METADATA, SYMBOL_IDENTIFIER
DartIdentifier(c) ==
    IF IsIdentifierCharEx(c.ch) THEN c
    ELSE IF c.state = SCE_DART_VARIABLE2
    THEN [SetState(c, c.outerState) EXCEPT !.cont = TRUE]
    ELSE IF c.state \in {SCE_DART_METADATA, SCE_DART_SYMBOL_IDENTIFIER} /\ c.ch = "."
    THEN [ForwardSetState(SetState(c, SCE_DART_OPERATOR), c.state) EXCEPT !.cont = TRUE]
    ELSE IF c.state = SCE_DART_IDENTIFIER
    THEN SetState(DartClassify(c), SCE_DART_DEFAULT)
    ELSE SetState(c, SCE_DART_DEFAULT)

\* a faulty variant of DartCommentBlock: the first "*/" ends the comment
DartCommentBlockFlat(c) ==
    IF Match2(c, "*", "/")
    THEN ForwardSetState([Forward(c) EXCEPT !.commentLevel = @ - 1], SCE_DART_DEFAULT)
    ELSE IF Match2(c, "/", "*")
    THEN [Forward(c) EXCEPT !.commentLevel = @ + 1]
    ELSE IF HighlightTaskMarker(c) THEN [c EXCEPT !.cont = TRUE]
    ELSE c

\* cases COMMENTBLOCK, COMMENTBLOCKDOC
DartCommentBlock(c) ==
    IF Match2(c, "*", "/")
    THEN LET c1 == [Forward(c) EXCEPT !.commentLevel = @ - 1]
         IN IF c1.commentLevel = 0 THEN ForwardSetState(c1, SCE_DART_DEFAULT) ELSE c1
    ELSE IF Match2(c, "/", "*")
    THEN [Forward(c) EXCEPT !.commentLevel = @ + 1]
    ELSE IF HighlightTaskMarker(c) THEN [c EXCEPT !.cont = TRUE]
    ELSE c

\* a faulty variant of DartEscapeStart: "\x" takes four further characters
DartEscapeStartLong(c) ==
    IF IsEOLChar(c.chNext) THEN c
    ELSE LET c1 == [c EXCEPT !.outerState = c.state, !.brace = FALSE,
                             !.digitsLeft = IF c.chNext = "x" THEN 4
                                            ELSE IF c.chNext = "u" THEN 5 ELSE 1]
             c2 == Forward(SetState(c1, SCE_DART_ESCAPECHAR))
         IN IF Match2(c2, "u", "{")
            THEN Forward([c2 EXCEPT !.brace = TRUE, !.digitsLeft = 7])
            ELSE c2

\* EscapeSequence::resetEscapeState followed by the code in the string case
DartEscapeStart(c) ==
    IF IsEOLChar(c.chNext) THEN c
    ELSE LET c1 == [c EXCEPT !.outerState = c.state, !.brace = FALSE,
                             !.digitsLeft = IF c.chNext = "x" THEN 3
                                            ELSE IF c.chNext = "u" THEN 5 ELSE 1]
             c2 == Forward(SetState(c1, SCE_DART_ESCAPECHAR))
         IN IF Match2(c2, "u", "{")
            THEN Forward([c2 EXCEPT !.brace = TRUE, !.digitsLeft = 7])
            ELSE c2

\* a faulty variant of DartInterpolation: "$name" re-enters the loop with continue
DartInterpolationContinue(c) ==
    IF c.chNext \in {"{", "("}
    THEN LET c1 == IF c.chNext = "("
                   THEN [c EXCEPT !.simpleStringInterpolation = TRUE, !.outerState = c.state]
                   ELSE [c EXCEPT !.nestedState = Append(@, c.state)]
         IN Forward(SetState(c1, SCE_DART_OPERATOR2))
    ELSE IF IsIdentifierStartEx(c.chNext)
    THEN [SetState([c EXCEPT !.outerState = c.state], SCE_DART_VARIABLE2) EXCEPT !.cont = TRUE]
    ELSE c

\* '$' in a string that is not raw
DartInterpolation(c) ==
    IF c.chNext \in {"{", "("}
    THEN LET c1 == IF c.chNext = "("
                   THEN [c EXCEPT !.simpleStringInterpolation = TRUE, !.outerState = c.state]
                   ELSE [c EXCEPT !.nestedState = Append(@, c.state)]
         IN Forward(SetState(c1, SCE_DART_OPERATOR2))
    ELSE IF IsIdentifierStartEx(c.chNext)
    THEN SetState([c EXCEPT !.outerState = c.state], SCE_DART_VARIABLE2)
    ELSE c

\* the closing quote of a string
DartStringClose(c) ==
    LET c1 == Forward(IF IsTripleString(c.state) THEN Advance(c, 2) ELSE c)
        c2 == IF c1.state <= SCE_DART_STRING_DQ /\ c1.chBefore \in {",", "{"}
                 /\ GetLineNextChar(c1, FALSE) = ":"
              THEN ChangeState(c1, SCE_DART_KEY)
              ELSE c1
    IN SetState(c2, SCE_DART_DEFAULT)

\* a faulty variant of DartString: the backslash starts an escape in raw strings too
DartStringCooked(c) ==
    IF c.atLineStart /\ ~IsTripleString(c.state) THEN SetState(c, SCE_DART_DEFAULT)
    ELSE IF c.ch = BSL THEN DartEscapeStart(c)
    ELSE IF c.ch = "$" /\ c.state < SCE_DART_RAWSTRING_SQ THEN DartInterpolation(c)
    ELSE IF c.ch = GetStringQuote(c.state) /\ (~IsTripleString(c.state) \/ MatchNext(c))
    THEN DartStringClose(c)
    ELSE c

\* a faulty variant of DartString: no reset at the start of a line
DartStringCarry(c) ==
    IF c.ch = BSL /\ c.state < SCE_DART_RAWSTRING_SQ THEN DartEscapeStart(c)
    ELSE IF c.ch = "$" /\ c.state < SCE_DART_RAWSTRING_SQ THEN DartInterpolation(c)
    ELSE IF c.ch = GetStringQuote(c.state) /\ (~IsTripleString(c.state) \/ MatchNext(c))
    THEN DartStringClose(c)
    ELSE c

\* the eight string cases
DartString(c) ==
    IF c.atLineStart /\ ~IsTripleString(c.state) THEN SetState(c, SCE_DART_DEFAULT)
    ELSE IF c.ch = BSL /\ c.state < SCE_DART_RAWSTRING_SQ THEN DartEscapeStart(c)
    ELSE IF c.ch = "$" /\ c.state < SCE_DART_RAWSTRING_SQ THEN DartInterpolation(c)
    ELSE IF c.ch = GetStringQuote(c.state) /\ (~IsTripleString(c.state) \/ MatchNext(c))
    THEN DartStringClose(c)
    ELSE c

\* case SCE_DART_ESCAPECHAR with EscapeSequence::atEscapeEnd
DartEscapeChar(c) ==
    LET c1 == [c EXCEPT !.digitsLeft = @ - 1]
    IN IF c1.digitsLeft <= 0 \/ ~IsHexDigit(c1.ch)
       THEN LET c2 == IF c1.brace /\ c1.ch = "}" THEN Forward(c1) ELSE c1
            IN [SetState(c2, c2.outerState) EXCEPT !.cont = TRUE]
       ELSE c1

\* the switch on sc.state
DartSwitch(c) ==
    CASE c.state \in {SCE_DART_OPERATOR, SCE_DART_OPERATOR2} -> SetState(c, SCE_DART_DEFAULT)
      [] c.state = SCE_DART_NUMBER ->
            IF ~IsDecimalNumber(c.chPrev, c.ch, c.chNext) THEN SetState(c, SCE_DART_DEFAULT)
            ELSE c
      [] c.state \in {SCE_DART_IDENTIFIER, SCE_DART_VARIABLE, SCE_DART_VARIABLE2,
                      SCE_DART_METADATA, SCE_DART_SYMBOL_IDENTIFIER} -> DartIdentifier(c)
      [] c.state = SCE_DART_SYMBOL_OPERATOR ->
            IF ~IsDeclarableOperator(c.ch) THEN SetState(c, SCE_DART_DEFAULT) ELSE c
      [] c.state \in {SCE_DART_COMMENTLINE, SCE_DART_COMMENTLINEDOC} ->
            IF c.atLineStart THEN SetState(c, SCE_DART_DEFAULT) ELSE c
      [] c.state \in {SCE_DART_COMMENTBLOCK, SCE_DART_COMMENTBLOCKDOC} -> DartCommentBlock(c)
      [] c.state \in SCE_DART_STRING_SQ..SCE_DART_TRIPLE_RAWSTRING_DQ -> DartString(c)
      [] c.state = SCE_DART_ESCAPECHAR -> DartEscapeChar(c)
      [] OTHER -> c

\* "//" or "/*" in the default state
DartCommentOpen(c) ==
    LET chNext == c.chNext
        c1 == ForwardN(SetState([c EXCEPT !.visibleCharsBefore = c.visibleChars],
                                IF chNext = "/" THEN SCE_DART_COMMENTLINE
                                ELSE SCE_DART_COMMENTBLOCK), 2)
        c2 == IF c1.ch = chNext /\ c1.chNext # chNext
              THEN ChangeState(c1, IF chNext = "/" THEN SCE_DART_COMMENTLINEDOC
                                   ELSE SCE_DART_COMMENTBLOCKDOC)
              ELSE c1
        c3 == IF chNext = "/"
              THEN IF c2.visibleChars = 0
                   THEN [c2 EXCEPT !.lineStateLineType = DartLineStateMaskLineComment]
                   ELSE c2
              ELSE [c2 EXCEPT !.commentLevel = 1]
    IN [c3 EXCEPT !.cont = TRUE]

\* 'r' followed by a quote in the default state
DartRawStringOpen(c) ==
    LET c1 == ForwardN(SetState(c, IF c.chNext = SQ THEN SCE_DART_RAWSTRING_SQ
                                   ELSE SCE_DART_RAWSTRING_DQ), 2)
        c2 == IF c1.chPrev = SQ /\ Match2(c1, SQ, SQ)
              THEN ForwardN(ChangeState(c1, SCE_DART_TRIPLE_RAWSTRING_SQ), 2)
              ELSE IF c1.chPrev = DQ /\ Match2(c1, DQ, DQ)
              THEN ForwardN(ChangeState(c1, SCE_DART_TRIPLE_RAWSTRING_DQ), 2)
              ELSE c1
    IN [c2 EXCEPT !.cont = TRUE]

\* a faulty variant of DartOperator: every '{' pushes the default marker
DartOperatorPushAlways(c) ==
    LET c1 == SetState(c, SCE_DART_OPERATOR)
    IN IF c1.simpleStringInterpolation /\ c1.ch = ")"
       THEN [ForwardSetState(ChangeState([c1 EXCEPT !.simpleStringInterpolation = FALSE],
                                         SCE_DART_OPERATOR2), c1.outerState)
                EXCEPT !.cont = TRUE]
       ELSE IF c1.ch = "{"
       THEN [c1 EXCEPT !.nestedState = Append(@, SCE_DART_DEFAULT)]
       ELSE IF c1.nestedState # <<>> /\ c1.ch = "}"
       THEN LET t == TakeAndPop(c1.nestedState)
                c2 == [c1 EXCEPT !.nestedState = t.rest]
                c3 == IF t.value # SCE_DART_DEFAULT THEN ChangeState(c2, SCE_DART_OPERATOR2)
                      ELSE c2
            IN [ForwardSetState(c3, t.value) EXCEPT !.cont = TRUE]
       ELSE c1

\* a faulty variant of DartOperator: '{' inside an interpolation pushes nothing
DartOperatorNoPush(c) ==
    LET c1 == SetState(c, SCE_DART_OPERATOR)
    IN IF c1.simpleStringInterpolation /\ c1.ch = ")"
       THEN [ForwardSetState(ChangeState([c1 EXCEPT !.simpleStringInterpolation = FALSE],
                                         SCE_DART_OPERATOR2), c1.outerState)
                EXCEPT !.cont = TRUE]
       ELSE IF c1.nestedState # <<>> /\ c1.ch = "}"
       THEN LET t == TakeAndPop(c1.nestedState)
                c2 == [c1 EXCEPT !.nestedState = t.rest]
                c3 == IF t.value # SCE_DART_DEFAULT THEN ChangeState(c2, SCE_DART_OPERATOR2)
                      ELSE c2
            IN [ForwardSetState(c3, t.value) EXCEPT !.cont = TRUE]
       ELSE c1

\* a graphic character in the default state
DartOperator(c) ==
    LET c1 == SetState(c, SCE_DART_OPERATOR)
    IN IF c1.simpleStringInterpolation /\ c1.ch = ")"
       THEN [ForwardSetState(ChangeState([c1 EXCEPT !.simpleStringInterpolation = FALSE],
                                         SCE_DART_OPERATOR2), c1.outerState)
                EXCEPT !.cont = TRUE]
       ELSE IF c1.nestedState # <<>> /\ c1.ch = "{"
       THEN [c1 EXCEPT !.nestedState = Append(@, SCE_DART_DEFAULT)]
       ELSE IF c1.nestedState # <<>> /\ c1.ch = "}"
       THEN LET t == TakeAndPop(c1.nestedState)
                c2 == [c1 EXCEPT !.nestedState = t.rest]
                c3 == IF t.value # SCE_DART_DEFAULT THEN ChangeState(c2, SCE_DART_OPERATOR2)
                      ELSE c2
            IN [ForwardSetState(c3, t.value) EXCEPT !.cont = TRUE]
       ELSE c1

\* the openers tried in the default state
DartDefault(c) ==
    IF c.state # SCE_DART_DEFAULT THEN c
    ELSE IF c.ch = "/" /\ c.chNext \in {"/", "*"} THEN DartCommentOpen(c)
    ELSE IF c.ch = "r" /\ c.chNext \in {SQ, DQ} THEN DartRawStringOpen(c)
    ELSE IF c.ch = DQ
    THEN IF MatchNext2(c, DQ, DQ) THEN Advance(SetState(c, SCE_DART_TRIPLE_STRING_DQ), 2)
         ELSE SetState([c EXCEPT !.chBefore = c.chPrevNonWhite], SCE_DART_STRING_DQ)
    ELSE IF c.ch = SQ
    THEN IF MatchNext2(c, SQ, SQ) THEN Advance(SetState(c, SCE_DART_TRIPLE_STRING_SQ), 2)
         ELSE SetState([c EXCEPT !.chBefore = c.chPrevNonWhite], SCE_DART_STRING_SQ)
    ELSE IF IsNumberStart(c.ch, c.chNext) THEN SetState(c, SCE_DART_NUMBER)
    ELSE IF c.ch \in {"@", "$"} /\ IsIdentifierStartEx(c.chNext)
    THEN SetState(c, IF c.ch = "@" THEN SCE_DART_METADATA ELSE SCE_DART_VARIABLE)
    ELSE IF c.ch = "#"
    THEN IF IsIdentifierStartEx(c.chNext) THEN SetState(c, SCE_DART_SYMBOL_IDENTIFIER)
         ELSE IF IsDeclarableOperator(c.chNext) THEN SetState(c, SCE_DART_SYMBOL_OPERATOR)
         ELSE c
    ELSE IF IsIdentifierStartEx(c.ch)
    THEN SetState([c EXCEPT !.chBefore = c.chPrevNonWhite,
                            !.chBeforeIdentifier = IF c.chPrevNonWhite # "."
                                                   THEN c.chPrevNonWhite ELSE @],
                  SCE_DART_IDENTIFIER)
    ELSE IF IsAGraphic(c.ch) THEN DartOperator(c)
    ELSE c

\* the end of an iteration: visible characters, the line state at a line end, Forward
\* a faulty variant of DartLineEnd: the expected category outlives the line
DartLineEndKeepsType(c) ==
    LET c1 == IF ~isspacechar(c.ch)
              THEN [c EXCEPT !.visibleChars = @ + 1,
                             !.chPrevNonWhite = IF ~DartIsSpaceEquiv(c.state) THEN c.ch ELSE @]
              ELSE c
        c2 == IF c1.atLineEnd
              THEN [SetLineState(c1, c1.currentLine,
                        DartEncodeLineState(c1.commentLevel, c1.lineStateLineType, c1.nestedState))
                       EXCEPT !.lineStateLineType = 0, !.visibleChars = 0,
                              !.visibleCharsBefore = 0]
              ELSE c1
    IN Forward(c2)

DartLineEnd(c) ==
    LET c1 == IF ~isspacechar(c.ch)
              THEN [c EXCEPT !.visibleChars = @ + 1,
                             !.chPrevNonWhite = IF ~DartIsSpaceEquiv(c.state) THEN c.ch ELSE @]
              ELSE c
        c2 == IF c1.atLineEnd
              THEN [SetLineState(c1, c1.currentLine,
                        DartEncodeLineState(c1.commentLevel, c1.lineStateLineType, c1.nestedState))
                       EXCEPT !.lineStateLineType = 0, !.visibleChars = 0,
                              !.visibleCharsBefore = 0, !.kwType = DartKwNone]
              ELSE c1
    IN Forward(c2)

\* one iteration of while (sc.More())
DartStep(c) ==
    LET a == DartSwitch([c EXCEPT !.cont = FALSE])
    IN IF a.cont THEN a
       ELSE LET b == DartDefault(a)
            IN IF b.cont THEN b ELSE DartLineEnd(b)

-----------------------------------------------------------------------------
(* Haxe: ColouriseHaxeDoc *)

SCE_HAXE_DEFAULT == 0
SCE_HAXE_COMMENTLINE == 1
SCE_HAXE_COMMENTBLOCK == 2
SCE_HAXE_COMMENTBLOCKDOC == 3
SCE_HAXE_COMMENTTAGAT == 4
SCE_HAXE_TASKMARKER == 5
SCE_HAXE_OPERATOR == 6
SCE_HAXE_OPERATOR2 == 7
SCE_HAXE_NUMBER == 8
SCE_HAXE_IDENTIFIER == 9
SCE_HAXE_ESCAPECHAR == 10
SCE_HAXE_STRINGSQ == 11
SCE_HAXE_STRINGDQ == 12
SCE_HAXE_REGEX == 13
SCE_HAXE_VARIABLE == 14
SCE_HAXE_VARIABLE2 == 15
SCE_HAXE_MATADATA == 16
SCE_HAXE_WORD == 17
SCE_HAXE_PREPROCESSOR == 18
SCE_HAXE_CLASS == 19
SCE_HAXE_INTERFACE == 20
SCE_HAXE_ENUM == 21
SCE_HAXE_CONSTANT == 22
SCE_HAXE_FUNCTION == 23
SCE_HAXE_FUNCTION_DEFINITION == 24

HaxeLineStateMaskLineComment == 1
HaxeLineStateMaskImport == 2

HaxeKwNone == SCE_HAXE_DEFAULT
HaxeKwClass == SCE_HAXE_CLASS
HaxeKwInterface == SCE_HAXE_INTERFACE
HaxeKwEnum == SCE_HAXE_ENUM
HaxeKwFunction == SCE_HAXE_FUNCTION_DEFINITION

\* keywordLists of the Haxe module: Keyword, Preprocessor, Class, Interface,
\* Enumeration, Constant, Metadata, Function (chosen to overlap)
HaxeKeywordLists ==
    << {<<"k">>, <<"n","e","w">>, <<"e","n","u","m">>, <<"c","l","a","s","s">>,
        <<"i","m","p","o","r","t">>, <<"f","u","n","c","t","i","o","n">>,
        <<"i","n","t","e","r","f","a","c","e">>},
       {<<"i","f">>, <<"e","n","d">>, <<"e","l","s","e">>},
       {<<"k">>, <<"c">>},
       {<<"k">>, <<"c">>, <<"j">>},
       {<<"k">>, <<"c">>, <<"j">>, <<"n">>},
       {<<"k">>, <<"c">>, <<"j">>, <<"n">>, <<"o">>},
       {},
       {} >>

HaxeInList(i, s) == s \in HaxeKeywordLists[i + 1]
HaxeIsSpaceEquiv(state) == state <= SCE_HAXE_TASKMARKER

\* the line state as the code at a line end builds it
HaxeEncodeLineState(lineStateLineType, nestedState) ==
    IF nestedState # <<>>
    THEN BitOr(lineStateLineType, Shl(PackLineState(nestedState), 8))
    ELSE lineStateLineType

HaxeDecodeNestedState(v) == IF Shr(v, 8) # 0 THEN UnpackLineState(Shr(v, 8)) ELSE <<>>

HaxePrologue(base, startPos, lengthDoc, initStyle) ==
    LET c0 == SCNew(base, startPos, lengthDoc, initStyle)
    IN IF c0.currentLine > 0
       THEN [c0 EXCEPT !.nestedState =
                          HaxeDecodeNestedState(GetLineState(c0, c0.currentLine - 1))]
       ELSE c0

\* an identifier that is in the Keyword list
HaxeKeyword(c, s) ==
    LET c1 == ChangeState(c, SCE_HAXE_WORD)
        c2 == IF s = <<"i","m","p","o","r","t">>
              THEN IF c1.visibleChars = LengthCurrent(c1)
                   THEN [c1 EXCEPT !.lineStateLineType = HaxeLineStateMaskImport]
                   ELSE c1
              ELSE IF s \in {<<"c","l","a","s","s">>, <<"n","e","w">>,
                             <<"e","x","t","e","n","d","s">>, <<"a","b","s","t","r","a","c","t">>,
                             <<"t","y","p","e","d","e","f">>}
              THEN IF c1.kwType # HaxeKwEnum THEN [c1 EXCEPT !.kwType = HaxeKwClass] ELSE c1
              ELSE IF s \in {<<"i","n","t","e","r","f","a","c","e">>,
                             <<"i","m","p","l","e","m","e","n","t","s">>}
              THEN [c1 EXCEPT !.kwType = HaxeKwInterface]
              ELSE IF s = <<"e","n","u","m">>
              THEN [c1 EXCEPT !.kwType = HaxeKwEnum]
              ELSE IF s = <<"f","u","n","c","t","i","o","n">>
              THEN [c1 EXCEPT !.kwType = HaxeKwFunction]
              ELSE c1
    IN IF c2.kwType # HaxeKwNone /\ ~IsIdentifierStartEx(GetDocNextChar(c2, FALSE))
       THEN [c2 EXCEPT !.kwType = HaxeKwNone]
       ELSE c2

\* an identifier in no list that is not followed by '.'
HaxeContextual(c) ==
    IF c.kwType # HaxeKwNone
    THEN ChangeState(c, c.kwType)
    ELSE LET chNext == GetDocNextChar(c, FALSE)
         IN IF chNext = "(" THEN ChangeState(c, SCE_HAXE_FUNCTION)
            ELSE IF Match2(c, "[", "]")
                    \/ (c.chBeforeIdentifier = "<" /\ chNext \in {">", "<"})
            THEN ChangeState(c, SCE_HAXE_CLASS)
            ELSE c

\* case SCE_HAXE_IDENTIFIER once the lexeme is complete
\* a faulty variant of HaxeClassify: a lexeme followed by '.' clears the flag too
HaxeClassifyOneShot(c) ==
    LET s == GetCurrent(c, 128)
        c1 == IF s # <<>> /\ s[1] = "#"
              THEN IF HaxeInList(1, Tail(s)) THEN ChangeState(c, SCE_HAXE_PREPROCESSOR) ELSE c
              ELSE IF HaxeInList(0, s) THEN HaxeKeyword(c, s)
              ELSE IF HaxeInList(2, s) THEN ChangeState(c, SCE_HAXE_CLASS)
              ELSE IF HaxeInList(3, s) THEN ChangeState(c, SCE_HAXE_INTERFACE)
              ELSE IF HaxeInList(4, s) THEN ChangeState(c, SCE_HAXE_ENUM)
              ELSE IF HaxeInList(5, s) THEN ChangeState(c, SCE_HAXE_CONSTANT)
              ELSE IF c.ch # "." THEN HaxeContextual(c)
              ELSE c
    IN IF c1.state # SCE_HAXE_WORD
       THEN [c1 EXCEPT !.kwType = HaxeKwNone]
       ELSE c1

\* case SCE_HAXE_IDENTIFIER once the lexeme is complete
HaxeClassify(c) ==
    LET s == GetCurrent(c, 128)
        c1 == IF s # <<>> /\ s[1] = "#"
              THEN IF HaxeInList(1, Tail(s)) THEN ChangeState(c, SCE_HAXE_PREPROCESSOR) ELSE c
              ELSE IF HaxeInList(0, s) THEN HaxeKeyword(c, s)
              ELSE IF HaxeInList(2, s) THEN ChangeState(c, SCE_HAXE_CLASS)
              ELSE IF HaxeInList(3, s) THEN ChangeState(c, SCE_HAXE_INTERFACE)
              ELSE IF HaxeInList(4, s) THEN ChangeState(c, SCE_HAXE_ENUM)
              ELSE IF HaxeInList(5, s) THEN ChangeState(c, SCE_HAXE_CONSTANT)
              ELSE IF c.ch # "." THEN HaxeContextual(c)
              ELSE c
    IN IF c1.state # SCE_HAXE_WORD /\ c1.ch # "."
       THEN [c1 EXCEPT !.kwType = HaxeKwNone]
       ELSE c1

\* cases IDENTIFIER, MATADATA, VARIABLE, VARIABLE2
HaxeIdentifier(c) ==
    IF IsIdentifierCharEx(c.ch) THEN c
    ELSE IF c.state = SCE_HAXE_VARIABLE2
    THEN [SetState(c, c.outerState) EXCEPT !.cont = TRUE]
    ELSE IF c.state = SCE_HAXE_MATADATA /\ c.ch = "."
    THEN [ForwardSetState(SetState(c, SCE_HAXE_OPERATOR), SCE_HAXE_MATADATA)
             EXCEPT !.cont = TRUE]
    ELSE IF c.state = SCE_HAXE_IDENTIFIER
    THEN SetState(HaxeClassify(c), SCE_HAXE_DEFAULT)
    ELSE SetState(c, SCE_HAXE_DEFAULT)

\* EscapeSequence::resetEscapeState followed by the code in the string case
HaxeEscapeStart(c) ==
    IF IsEOLChar(c.chNext) THEN c
    ELSE LET c1 == [c EXCEPT !.outerState = c.state, !.brace = FALSE,
                             !.hex = ~(c.chNext \notin {"u", "x"} /\ IsOctalDigit(c.chNext)),
                             !.digitsLeft = IF c.chNext = "u" THEN 5
                                            ELSE IF c.chNext = "x" THEN 3
                                            ELSE IF IsOctalDigit(c.chNext) THEN 3 ELSE 1]
             c2 == Forward(SetState(c1, SCE_HAXE_ESCAPECHAR))
         IN IF Match2(c2, "u", "{")
            THEN Forward([c2 EXCEPT !.brace = TRUE, !.digitsLeft = 7])
            ELSE c2

\* a faulty variant of HaxeString: a string that is open at a line start is closed
HaxeStringReset(c) ==
    IF c.atLineStart THEN SetState(c, SCE_HAXE_DEFAULT)
    ELSE IF c.ch = BSL THEN HaxeEscapeStart(c)
    ELSE IF c.ch = "$" /\ c.state = SCE_HAXE_STRINGSQ
    THEN IF c.chNext = "{"
         THEN Forward(SetState([c EXCEPT !.nestedState = Append(@, c.state)],
                               SCE_HAXE_OPERATOR2))
         ELSE IF IsIdentifierStartEx(c.chNext)
         THEN SetState([c EXCEPT !.outerState = c.state], SCE_HAXE_VARIABLE2)
         ELSE c
    ELSE IF c.ch = (IF c.state = SCE_HAXE_STRINGDQ THEN DQ ELSE SQ)
    THEN ForwardSetState(c, SCE_HAXE_DEFAULT)
    ELSE c

\* cases STRINGDQ, STRINGSQ
HaxeString(c) ==
    IF c.ch = BSL THEN HaxeEscapeStart(c)
    ELSE IF c.ch = "$" /\ c.state = SCE_HAXE_STRINGSQ
    THEN IF c.chNext = "{"
         THEN Forward(SetState([c EXCEPT !.nestedState = Append(@, c.state)],
                               SCE_HAXE_OPERATOR2))
         ELSE IF IsIdentifierStartEx(c.chNext)
         THEN SetState([c EXCEPT !.outerState = c.state], SCE_HAXE_VARIABLE2)
         ELSE c
    ELSE IF c.ch = (IF c.state = SCE_HAXE_STRINGDQ THEN DQ ELSE SQ)
    THEN ForwardSetState(c, SCE_HAXE_DEFAULT)
    ELSE c

\* case SCE_HAXE_ESCAPECHAR with EscapeSequence::atEscapeEnd
HaxeEscapeChar(c) ==
    LET c1 == [c EXCEPT !.digitsLeft = @ - 1]
    IN IF c1.digitsLeft <= 0 \/ ~IsOctalOrHex(c1.ch, c1.hex)
       THEN LET c2 == IF c1.brace /\ c1.ch = "}" THEN Forward(c1) ELSE c1
            IN [SetState(c2, c2.outerState) EXCEPT !.cont = TRUE]
       ELSE c1

RECURSIVE HaxeRegexFlags(_)
HaxeRegexFlags(c) == IF IsLowerCase(c.ch) THEN HaxeRegexFlags(Forward(c)) ELSE c

\* case SCE_HAXE_REGEX
HaxeRegex(c) ==
    IF c.ch = BSL THEN Forward(c)
    ELSE IF c.ch \in {"[", "]"} THEN [c EXCEPT !.insideRegexRange = (c.ch = "[")]
    ELSE IF c.ch = "/" /\ ~c.insideRegexRange
    THEN SetState(HaxeRegexFlags(Forward(c)), SCE_HAXE_DEFAULT)
    ELSE c

\* a faulty variant of HaxeCommentBlock: "/*" inside a comment is counted and the
\* "*/" that answers it does not close the comment
HaxeCommentBlockNested(c) ==
    IF Match2(c, "*", "/")
    THEN IF c.commentLevel > 0 THEN [Forward(c) EXCEPT !.commentLevel = @ - 1]
         ELSE ForwardSetState(Forward(c), SCE_HAXE_DEFAULT)
    ELSE IF Match2(c, "/", "*") THEN [Forward(c) EXCEPT !.commentLevel = @ + 1]
    ELSE IF c.state = SCE_HAXE_COMMENTBLOCKDOC /\ c.ch = "@" /\ IsAlpha(c.chNext)
            /\ IsCommentTagPrev(c.chPrev)
    THEN SetState(c, SCE_HAXE_COMMENTTAGAT)
    ELSE IF HighlightTaskMarker(c) THEN [c EXCEPT !.cont = TRUE]
    ELSE c

\* cases COMMENTBLOCK, COMMENTBLOCKDOC
HaxeCommentBlock(c) ==
    IF Match2(c, "*", "/") THEN ForwardSetState(Forward(c), SCE_HAXE_DEFAULT)
    ELSE IF c.state = SCE_HAXE_COMMENTBLOCKDOC /\ c.ch = "@" /\ IsAlpha(c.chNext)
            /\ IsCommentTagPrev(c.chPrev)
    THEN SetState(c, SCE_HAXE_COMMENTTAGAT)
    ELSE IF HighlightTaskMarker(c) THEN [c EXCEPT !.cont = TRUE]
    ELSE c

\* the switch on sc.state
HaxeSwitch(c) ==
    CASE c.state \in {SCE_HAXE_OPERATOR, SCE_HAXE_OPERATOR2} -> SetState(c, SCE_HAXE_DEFAULT)
      [] c.state = SCE_HAXE_NUMBER ->
            IF ~IsDecimalNumberEx(c.chPrev, c.ch, c.chNext) THEN SetState(c, SCE_HAXE_DEFAULT)
            ELSE c
      [] c.state \in {SCE_HAXE_IDENTIFIER, SCE_HAXE_MATADATA, SCE_HAXE_VARIABLE,
                      SCE_HAXE_VARIABLE2} -> HaxeIdentifier(c)
      [] c.state \in {SCE_HAXE_STRINGDQ, SCE_HAXE_STRINGSQ} -> HaxeString(c)
      [] c.state = SCE_HAXE_ESCAPECHAR -> HaxeEscapeChar(c)
      [] c.state = SCE_HAXE_REGEX -> HaxeRegex(c)
      [] c.state = SCE_HAXE_COMMENTLINE ->
            IF c.atLineStart THEN SetState(c, SCE_HAXE_DEFAULT) ELSE c
      [] c.state \in {SCE_HAXE_COMMENTBLOCK, SCE_HAXE_COMMENTBLOCKDOC} -> HaxeCommentBlock(c)
      [] c.state = SCE_HAXE_COMMENTTAGAT ->
            IF ~IsAlpha(c.ch) THEN [SetState(c, SCE_HAXE_COMMENTBLOCKDOC) EXCEPT !.cont = TRUE]
            ELSE c
      [] OTHER -> c

\* a graphic character in the default state
HaxeOperator(c) ==
    LET c1 == SetState(c, SCE_HAXE_OPERATOR)
    IN IF c1.nestedState # <<>> /\ c1.ch = "{"
       THEN [c1 EXCEPT !.nestedState = Append(@, SCE_HAXE_DEFAULT)]
       ELSE IF c1.nestedState # <<>> /\ c1.ch = "}"
       THEN LET t == TakeAndPop(c1.nestedState)
                c2 == [c1 EXCEPT !.nestedState = t.rest]
                c3 == IF t.value # SCE_HAXE_DEFAULT THEN ChangeState(c2, SCE_HAXE_OPERATOR2)
                      ELSE c2
            IN [ForwardSetState(c3, t.value) EXCEPT !.cont = TRUE]
       ELSE c1

\* the openers tried in the default state
HaxeDefault(c) ==
    IF c.state # SCE_HAXE_DEFAULT THEN c
    ELSE IF Match2(c, "/", "/")
    THEN LET c1 == SetState([c EXCEPT !.visibleCharsBefore = c.visibleChars],
                            SCE_HAXE_COMMENTLINE)
         IN IF c1.visibleChars = 0
            THEN [c1 EXCEPT !.lineStateLineType = HaxeLineStateMaskLineComment]
            ELSE c1
    ELSE IF Match2(c, "/", "*")
    THEN LET c1 == ForwardN(SetState([c EXCEPT !.visibleCharsBefore = c.visibleChars],
                                     SCE_HAXE_COMMENTBLOCK), 2)
             c2 == IF c1.ch = "*" /\ c1.chNext # "*"
                   THEN ChangeState(c1, SCE_HAXE_COMMENTBLOCKDOC) ELSE c1
         IN [c2 EXCEPT !.cont = TRUE]
    ELSE IF Match2(c, "~", "/")
    THEN Forward(SetState([c EXCEPT !.insideRegexRange = FALSE], SCE_HAXE_REGEX))
    ELSE IF c.ch = SQ THEN SetState(c, SCE_HAXE_STRINGSQ)
    ELSE IF c.ch = DQ THEN SetState(c, SCE_HAXE_STRINGDQ)
    ELSE IF IsNumberStartEx(c.chPrev, c.ch, c.chNext) THEN SetState(c, SCE_HAXE_NUMBER)
    ELSE IF IsIdentifierStartEx(c.ch) \/ (c.ch = "#" /\ c.chNext \in {"e", "i"})
    THEN SetState([c EXCEPT !.chBeforeIdentifier = IF c.chPrevNonWhite # "."
                                                   THEN c.chPrevNonWhite ELSE @],
                  SCE_HAXE_IDENTIFIER)
    ELSE IF c.ch = "@" /\ (c.chNext = ":" \/ IsIdentifierStartEx(c.chNext))
    THEN LET c1 == SetState(c, SCE_HAXE_MATADATA)
         IN IF c1.chNext = ":" THEN Forward(c1) ELSE c1
    ELSE IF c.ch = "$" /\ IsIdentifierStartEx(c.chNext) THEN SetState(c, SCE_HAXE_VARIABLE)
    ELSE IF IsAGraphic(c.ch) THEN HaxeOperator(c)
    ELSE c

\* the end of an iteration: visible characters, the line state at a line end, Forward
HaxeLineEnd(c) ==
    LET c1 == IF ~isspacechar(c.ch)
              THEN [c EXCEPT !.visibleChars = @ + 1,
                             !.chPrevNonWhite = IF ~HaxeIsSpaceEquiv(c.state) THEN c.ch ELSE @]
              ELSE c
        c2 == IF c1.atLineEnd
              THEN [SetLineState(c1, c1.currentLine,
                        HaxeEncodeLineState(c1.lineStateLineType, c1.nestedState))
                       EXCEPT !.lineStateLineType = 0, !.visibleChars = 0,
                              !.visibleCharsBefore = 0, !.kwType = HaxeKwNone]
              ELSE c1
    IN Forward(c2)

\* one iteration of while (sc.More())
HaxeStep(c) ==
    LET a == HaxeSwitch([c EXCEPT !.cont = FALSE])
    IN IF a.cont THEN a
       ELSE LET b == HaxeDefault(a)
            IN IF b.cont THEN b ELSE HaxeLineEnd(b)

-----------------------------------------------------------------------------
(* Fold passes: FoldDartDoc, FoldHaxeDoc *)

\* a faulty variant of FoldLineState: the import flag is not decoded
FoldLineStateNoImport(v) == [lineComment |-> BitAnd(v, 1), packageImport |-> 0]

FoldLineState(v) == [lineComment |-> BitAnd(v, 1), packageImport |-> BitAnd(Shr(v, 1), 1)]

\* the positions of a line whose style is above maxSpaceStyle
SignificantOn(c, line, maxSpaceStyle) ==
    {p \in LineStart(line)..(LineStart(line + 1) - 1) : StyleAt(c, p) > maxSpaceStyle}

\* the brace probe: the position of an operator-styled '{' that begins line + 1, when
\* the line itself has significant content that does not start in ignoreStyle and does
\* not end in an operator other than ) > = : ] ^ ? * ; otherwise 0
CheckBraceOnNextLine(c, line, operatorStyle, maxSpaceStyle, ignoreStyle) ==
    LET bracePos == LexSkipSpaceTab(LineStart(line + 1), LineStart(line + 2) - 1)
        sig == SignificantOn(c, line, maxSpaceStyle)
        first == CHOOSE p \in sig : \A q \in sig : p <= q
        last == CHOOSE p \in sig : \A q \in sig : p >= q
    IN IF CharAt(bracePos) # "{" \/ StyleAt(c, bracePos) # operatorStyle THEN 0
       ELSE IF sig = {} THEN 0
       ELSE IF ignoreStyle # 0 /\ StyleAt(c, first) = ignoreStyle THEN 0
       ELSE IF /\ StyleAt(c, last) = operatorStyle
               /\ CharAt(last) \notin {")", ">", "=", ":", "]", "^", "?", "*"}
            THEN 0
       ELSE bracePos

\* a faulty variant of FoldPrologue: the level is read from the low half of the record
\* of the line before
FoldPrologueLowHalf(base, startPos, lengthDoc, initStyle, bracePos) ==
    LET line == GetLine(startPos)
        start == IF line > 0 /\ bracePos # 0 THEN bracePos + 1 ELSE startPos
        lc == IF line > 0 THEN BitAnd(LevelAt(base, line - 1), SC_FOLDLEVELHEADERFLAG - 1)
              ELSE SC_FOLDLEVELBASE
    IN [base EXCEPT
          !.endPos = startPos + lengthDoc,
          !.lineCurrent = line,
          !.levelCurrent = lc,
          !.foldPrev = IF line > 0 THEN FoldLineState(GetLineState(base, line - 1))
                       ELSE FoldLineState(0),
          !.startPos = start,
          !.levelNext = lc,
          !.foldCurrent = FoldLineState(GetLineState(base, line)),
          !.lineStartNext = Min(LineStart(line + 1), startPos + lengthDoc),
          !.chNext = CharAt(start),
          !.styleNext = StyleAt(base, start),
          !.style = initStyle,
          !.visibleChars = 0]

\* faulty variant: a prologue that starts at the brace the line before has counted
FoldPrologueNoSkip(base, startPos, lengthDoc, initStyle, bracePos) ==
    LET line == GetLine(startPos)
        lc == IF line > 0 THEN Shr(LevelAt(base, line - 1), 16) ELSE SC_FOLDLEVELBASE
    IN [base EXCEPT
          !.endPos = startPos + lengthDoc,
          !.lineCurrent = line,
          !.levelCurrent = lc,
          !.foldPrev = IF line > 0 THEN FoldLineState(GetLineState(base, line - 1))
                       ELSE FoldLineState(0),
          !.startPos = startPos,
          !.levelNext = lc,
          !.foldCurrent = FoldLineState(GetLineState(base, line)),
          !.lineStartNext = Min(LineStart(line + 1), startPos + lengthDoc),
          !.chNext = CharAt(startPos),
          !.styleNext = StyleAt(base, startPos),
          !.style = initStyle,
          !.visibleChars = 0]

\* the prologue shared by the two fold functions
FoldPrologue(base, startPos, lengthDoc, initStyle, bracePos) ==
    LET line == GetLine(startPos)
        start == IF line > 0 /\ bracePos # 0 THEN bracePos + 1 ELSE startPos
        lc == IF line > 0 THEN Shr(LevelAt(base, line - 1), 16) ELSE SC_FOLDLEVELBASE
    IN [base EXCEPT
          !.endPos = startPos + lengthDoc,
          !.lineCurrent = line,
          !.levelCurrent = lc,
          !.foldPrev = IF line > 0 THEN FoldLineState(GetLineState(base, line - 1))
                       ELSE FoldLineState(0),
          !.startPos = start,
          !.levelNext = lc,
          !.foldCurrent = FoldLineState(GetLineState(base, line)),
          !.lineStartNext = Min(LineStart(line + 1), startPos + lengthDoc),
          !.chNext = CharAt(start),
          !.styleNext = StyleAt(base, start),
          !.style = initStyle,
          !.visibleChars = 0]

FoldDartPrologue(base, startPos, lengthDoc, initStyle) ==
    FoldPrologue(base, startPos, lengthDoc, initStyle,
                 CheckBraceOnNextLine(base, GetLine(startPos) - 1,
                                      SCE_DART_OPERATOR, SCE_DART_TASKMARKER, 0))

FoldHaxePrologue(base, startPos, lengthDoc, initStyle) ==
    FoldPrologue(base, startPos, lengthDoc, initStyle,
                 CheckBraceOnNextLine(base, GetLine(startPos) - 1,
                                      SCE_HAXE_OPERATOR, SCE_HAXE_TASKMARKER,
                                      SCE_HAXE_PREPROCESSOR))

\* the head of an iteration: ch, stylePrev and style move on by one character
FoldAdvance(f) ==
    [f EXCEPT !.ch = f.chNext, !.stylePrev = f.style, !.style = f.styleNext,
              !.startPos = f.startPos + 1,
              !.chNext = CharAt(f.startPos + 1),
              !.styleNext = StyleAt(f, f.startPos + 1)]

DartIsMultilineStringStyle(style) ==
    style \in {SCE_DART_TRIPLE_STRING_SQ, SCE_DART_TRIPLE_STRING_DQ, SCE_DART_OPERATOR2,
               SCE_DART_VARIABLE2, SCE_DART_ESCAPECHAR}

\* a faulty variant of FoldDartSwitch: ')' , ']' and '}' are not counted
FoldDartSwitchNoClose(f) ==
    CASE f.style \in {SCE_DART_COMMENTBLOCKDOC, SCE_DART_COMMENTBLOCK} ->
            LET level == IF f.ch = "/" /\ f.chNext = "*" THEN 1
                         ELSE IF f.ch = "*" /\ f.chNext = "/" THEN -1 ELSE 0
            IN IF level # 0
               THEN [f EXCEPT !.levelNext = @ + level,
                              !.startPos = f.startPos + 1,
                              !.chNext = CharAt(f.startPos + 1),
                              !.styleNext = StyleAt(f, f.startPos + 1)]
               ELSE f
      [] f.style \in {SCE_DART_TRIPLE_RAWSTRING_SQ, SCE_DART_TRIPLE_RAWSTRING_DQ} ->
            IF f.style # f.stylePrev THEN [f EXCEPT !.levelNext = @ + 1]
            ELSE IF f.style # f.styleNext THEN [f EXCEPT !.levelNext = @ - 1]
            ELSE f
      [] f.style \in {SCE_DART_TRIPLE_STRING_SQ, SCE_DART_TRIPLE_STRING_DQ} ->
            IF ~DartIsMultilineStringStyle(f.stylePrev) THEN [f EXCEPT !.levelNext = @ + 1]
            ELSE IF ~DartIsMultilineStringStyle(f.styleNext) THEN [f EXCEPT !.levelNext = @ - 1]
            ELSE f
      [] f.style = SCE_DART_OPERATOR ->
            IF f.ch \in {"{", "[", "("} THEN [f EXCEPT !.levelNext = @ + 1]
            ELSE f
      [] OTHER -> f

\* the switch on style of FoldDartDoc
FoldDartSwitch(f) ==
    CASE f.style \in {SCE_DART_COMMENTBLOCKDOC, SCE_DART_COMMENTBLOCK} ->
            LET level == IF f.ch = "/" /\ f.chNext = "*" THEN 1
                         ELSE IF f.ch = "*" /\ f.chNext = "/" THEN -1 ELSE 0
            IN IF level # 0
               THEN [f EXCEPT !.levelNext = @ + level,
                              !.startPos = f.startPos + 1,
                              !.chNext = CharAt(f.startPos + 1),
                              !.styleNext = StyleAt(f, f.startPos + 1)]
               ELSE f
      [] f.style \in {SCE_DART_TRIPLE_RAWSTRING_SQ, SCE_DART_TRIPLE_RAWSTRING_DQ} ->
            IF f.style # f.stylePrev THEN [f EXCEPT !.levelNext = @ + 1]
            ELSE IF f.style # f.styleNext THEN [f EXCEPT !.levelNext = @ - 1]
            ELSE f
      [] f.style \in {SCE_DART_TRIPLE_STRING_SQ, SCE_DART_TRIPLE_STRING_DQ} ->
            IF ~DartIsMultilineStringStyle(f.stylePrev) THEN [f EXCEPT !.levelNext = @ + 1]
            ELSE IF ~DartIsMultilineStringStyle(f.styleNext) THEN [f EXCEPT !.levelNext = @ - 1]
            ELSE f
      [] f.style = SCE_DART_OPERATOR ->
            IF f.ch \in {"{", "[", "("} THEN [f EXCEPT !.levelNext = @ + 1]
            ELSE IF f.ch \in {"}", "]", ")"} THEN [f EXCEPT !.levelNext = @ - 1]
            ELSE f
      [] OTHER -> f

HaxeIsStreamCommentStyle(style) ==
    style \in {SCE_HAXE_COMMENTBLOCK, SCE_HAXE_COMMENTBLOCKDOC, SCE_HAXE_COMMENTTAGAT,
               SCE_HAXE_TASKMARKER}

HaxeIsMultilineStringStyle(style) ==
    style \in {SCE_HAXE_STRINGDQ, SCE_HAXE_STRINGSQ, SCE_HAXE_OPERATOR2,
               SCE_HAXE_VARIABLE2, SCE_HAXE_ESCAPECHAR}

\* the switch on style of FoldHaxeDoc
FoldHaxeSwitch(f) ==
    CASE f.style \in {SCE_HAXE_COMMENTBLOCK, SCE_HAXE_COMMENTBLOCKDOC} ->
            IF ~HaxeIsStreamCommentStyle(f.stylePrev) THEN [f EXCEPT !.levelNext = @ + 1]
            ELSE IF ~HaxeIsStreamCommentStyle(f.styleNext) THEN [f EXCEPT !.levelNext = @ - 1]
            ELSE f
      [] f.style = SCE_HAXE_REGEX ->
            IF f.style # f.stylePrev THEN [f EXCEPT !.levelNext = @ + 1]
            ELSE IF f.style # f.styleNext THEN [f EXCEPT !.levelNext = @ - 1]
            ELSE f
      [] f.style \in {SCE_HAXE_STRINGSQ, SCE_HAXE_STRINGDQ} ->
            IF ~HaxeIsMultilineStringStyle(f.stylePrev) THEN [f EXCEPT !.levelNext = @ + 1]
            ELSE IF ~HaxeIsMultilineStringStyle(f.styleNext) THEN [f EXCEPT !.levelNext = @ - 1]
            ELSE f
      [] f.style = SCE_HAXE_OPERATOR ->
            IF f.ch \in {"{", "[", "("} THEN [f EXCEPT !.levelNext = @ + 1]
            ELSE IF f.ch \in {"}", "]", ")"} THEN [f EXCEPT !.levelNext = @ - 1]
            ELSE f
      [] f.style = SCE_HAXE_PREPROCESSOR ->
            IF f.ch = "#"
            THEN IF f.chNext = "i" /\ CharAt(f.startPos + 1) = "f"
                 THEN [f EXCEPT !.levelNext = @ + 1]
                 ELSE IF f.chNext = "e" /\ CharAt(f.startPos) = "e"
                         /\ CharAt(f.startPos + 1) = "n" /\ CharAt(f.startPos + 2) = "d"
                 THEN [f EXCEPT !.levelNext = @ - 1]
                 ELSE f
            ELSE f
      [] OTHER -> f

\* a faulty variant of FoldLineEnd: the record of a line in a line-comment or import
\* run is made from the flags of the line after the next
FoldLineEndFar(f, isSpaceEquiv, operatorStyle, bracePos) ==
    LET f1 == IF f.visibleChars = 0 /\ ~isSpaceEquiv THEN [f EXCEPT !.visibleChars = 1] ELSE f
        foldNext == FoldLineState(GetLineState(f1, f1.lineCurrent + 1))
        foldFar == FoldLineState(GetLineState(f1, f1.lineCurrent + 2))
        f2 == IF f1.foldCurrent.lineComment # 0
              THEN [f1 EXCEPT !.levelNext = @ + foldFar.lineComment - f1.foldPrev.lineComment]
              ELSE IF f1.foldCurrent.packageImport # 0
              THEN [f1 EXCEPT !.levelNext =
                                  @ + foldFar.packageImport - f1.foldPrev.packageImport]
              ELSE IF f1.visibleChars # 0 /\ bracePos # 0
              THEN [f1 EXCEPT !.levelNext = @ + 1,
                              !.startPos = bracePos + 1,
                              !.style = operatorStyle,
                              !.chNext = CharAt(bracePos + 1),
                              !.styleNext = StyleAt(f1, bracePos + 1)]
              ELSE f1
        f3 == SetLevel(f2, f2.lineCurrent, FoldRecord(f2.levelCurrent, f2.levelNext))
    IN IF f1.startPos = f1.lineStartNext
       THEN [f3 EXCEPT !.lineCurrent = @ + 1,
                       !.lineStartNext = Min(LineStart(f3.lineCurrent + 2), f3.endPos),
                       !.levelCurrent = f3.levelNext,
                       !.foldPrev = f3.foldCurrent,
                       !.foldCurrent = foldNext,
                       !.visibleChars = 0]
       ELSE f1

\* the end of an iteration: the line's record once startPos reaches the next line
FoldLineEnd(f, isSpaceEquiv, operatorStyle, bracePos) ==
    LET f1 == IF f.visibleChars = 0 /\ ~isSpaceEquiv THEN [f EXCEPT !.visibleChars = 1] ELSE f
        foldNext == FoldLineState(GetLineState(f1, f1.lineCurrent + 1))
        f2 == IF f1.foldCurrent.lineComment # 0
              THEN [f1 EXCEPT !.levelNext = @ + foldNext.lineComment - f1.foldPrev.lineComment]
              ELSE IF f1.foldCurrent.packageImport # 0
              THEN [f1 EXCEPT !.levelNext =
                                  @ + foldNext.packageImport - f1.foldPrev.packageImport]
              ELSE IF f1.visibleChars # 0 /\ bracePos # 0
              THEN [f1 EXCEPT !.levelNext = @ + 1,
                              !.startPos = bracePos + 1,
                              !.style = operatorStyle,
                              !.chNext = CharAt(bracePos + 1),
                              !.styleNext = StyleAt(f1, bracePos + 1)]
              ELSE f1
        f3 == SetLevel(f2, f2.lineCurrent, FoldRecord(f2.levelCurrent, f2.levelNext))
    IN IF f1.startPos = f1.lineStartNext
       THEN [f3 EXCEPT !.lineCurrent = @ + 1,
                       !.lineStartNext = Min(LineStart(f3.lineCurrent + 2), f3.endPos),
                       !.levelCurrent = f3.levelNext,
                       !.foldPrev = f3.foldCurrent,
                       !.foldCurrent = foldNext,
                       !.visibleChars = 0]
       ELSE f1

\* one iteration of while (startPos < endPos)
FoldDartStep(f) ==
    LET g == FoldDartSwitch(FoldAdvance(f))
    IN FoldLineEnd(g, DartIsSpaceEquiv(g.style), SCE_DART_OPERATOR,
                   CheckBraceOnNextLine(g, g.lineCurrent,
                                        SCE_DART_OPERATOR, SCE_DART_TASKMARKER, 0))

FoldHaxeStep(f) ==
    LET g == FoldHaxeSwitch(FoldAdvance(f))
    IN FoldLineEnd(g, HaxeIsSpaceEquiv(g.style), SCE_HAXE_OPERATOR,
                   CheckBraceOnNextLine(g, g.lineCurrent,
                                        SCE_HAXE_OPERATOR, SCE_HAXE_TASKMARKER,
                                        SCE_HAXE_PREPROCESSOR))

-----------------------------------------------------------------------------
(* Documents *)

RECURSIVE Flatten(_)
Flatten(ss) == IF ss = <<>> THEN <<>> ELSE Head(ss) \o Flatten(Tail(ss))

\* the concatenations of at most MaxPieces pieces of P
DocsOver(P) == {Flatten(f) : f \in UNION {[1..n -> P] : n \in 0..MaxPieces}}

DartCommentPieces == { <<"/","*">>, <<"*","/">>, <<"/">>, <<"*">>, <<"a">>, <<LF>> }
DartStringPieces == { <<DQ>>, <<SQ,"a">>, <<"r",DQ>>, <<DQ,DQ,DQ>>, <<BSL,"x">>, <<"$","a">>, <<LF>> }
DartInterpPieces == { <<DQ,"x","$","{">>, <<DQ,"$","(">>, <<"{">>, <<"}">>, <<")">>, <<"(">>,
                      <<"y",DQ>>, <<LF>> }
DartWordPieces == { <<"k">>, <<"t">>, <<"c">>, <<"n">>, <<"i","s",SPACE>>, <<":">>, <<"(">>,
                    <<",">>, <<LF>> }
BracePieces == { <<"{",LF>>, <<"}",LF>>, <<"{",LF,"}",LF>>, <<SPACE>>, <<"a",LF>>, <<"/","/",LF>> }

DartExamples ==
    { <<"r","e","t","u","r","n",LF,"x","(",")",";">>,
      <<DQ,DQ,DQ,"c"," ",BSL,"x","4",LF,"$","a",LF,BSL,"u","{","1",LF,"b",DQ,DQ,DQ>>,
      <<DQ,"$","(",SQ,BSL,"n",SQ,")","y",DQ>>,
      <<SQ,"$","(",DQ,"$","a",DQ,")","y",SQ>>,
      <<DQ,"$","(",SQ,"a",SQ,")","y",DQ>>,
      <<"r",SQ,"a",BSL,SQ,"b",SQ>>,
      <<"r",DQ,DQ,DQ,BSL,DQ,"$","(","a",")","$","{","x","}",DQ,DQ,DQ,";">>,
      <<"r",SQ,SQ,SQ,"$","a",BSL,"n",LF,"$","{",SQ,SQ,SQ>>,
      <<"r",DQ,"$","{","a","}",BSL,"u","{","1","}",DQ,"r",SQ,SQ,"a">>,
      <<"/","*"," ","a"," ","/","*"," ","b"," ","*","/"," ","c"," ","*","/"," ","d">>,
      <<DQ,"x","$","{"," ","{","1",":","2","}"," ","}","y",DQ>>,
      <<DQ,"a","b","c",LF>>,
      <<"p","a","r","t"," ",DQ,"$","{","{","/","*",LF,"*","/","}","}",DQ>>,
      <<DQ,BSL,"u","{","1","}",BSL,"x","4","1","1",BSL,"u","0","0","e","9","9",BSL,"n",DQ>>,
      <<SQ,BSL,"u","{","1","2","3","4","5","6","7","}",BSL,"x","g",SQ>>,
      <<DQ,DQ,DQ,BSL,LF,BSL,"u","{","1","2","3","4","5","6","}",DQ,DQ,DQ>>,
      <<DQ,"$","(","f","(","a",")",")",DQ>>,
      <<"{",LF,"a",":","1",",",LF,"b",":","2","}">>,
      <<"a",":",";",LF,"b",":","}","x",":">>,
      <<"i","s"," ","a",":","(","b",":","f","?","x",":","y">>,
      <<"n","e","w"," ","a",".","b","(",")",";","x">>,
      <<"t"," ","f","(",")","{","r","e","t","u","r","n"," ","g","(",")",";","}">>,
      <<"x","[","]",LF,"h",LF,"(",")",";","a","?","(">> }

DartDocs ==
    DocsOver(DartCommentPieces) \cup DocsOver(DartStringPieces) \cup DocsOver(DartInterpPieces)
    \cup DocsOver(DartWordPieces) \cup DocsOver(BracePieces) \cup DartExamples

HaxeInterpPieces == { <<SQ,"x","$","{">>, <<"{">>, <<"}">>, <<"y",SQ>>, <<DQ>>, <<BSL,"1">>,
                      <<LF>> }
HaxeWordPieces == { <<"k">>, <<"c">>, <<"j">>, <<"n">>, <<"o">>, <<"n","e","w",SPACE>>,
                    <<"(">>, <<".">>, <<LF>> }
HaxeMiscPieces == { <<"<">>, <<"a",">">>, <<"a">>, <<"~","/","[">>, <<"]">>, <<"/">>, <<LF>> }
HaxeCommentPieces == { <<"/","*">>, <<"*","/">>, <<"*">>, <<"@","a">>, <<"/","/">>, <<LF>> }

HaxeExamples ==
    { <<SQ,"c"," ",BSL,"x","4",LF,"$","a",LF,BSL,"u","{","1",LF,"b",SQ>>,
      <<SQ,"x","$","{"," ","{","1",":","2","}"," ","}","y",SQ>>,
      <<"/","*"," ","a"," ","/","*"," ","b"," ","*","/"," ","c"," ","*","/"," ","d">>,
      <<DQ,BSL,"1","0","1","1",BSL,"1","8",BSL,"x","4","1","1",BSL,"u","{","1","}",BSL,"n",DQ>>,
      <<SQ,BSL,LF,BSL,"u","0","0","e","9","9",BSL,"u","{","1","2","3","4","5","6","7","}",SQ>>,
      <<"n","e","w"," ","a",".","b","(",")",";","x">> }

HaxeDocs ==
    DocsOver(HaxeInterpPieces) \cup DocsOver(HaxeWordPieces) \cup DocsOver(HaxeMiscPieces)
    \cup DocsOver(HaxeCommentPieces) \cup DocsOver(BracePieces) \cup HaxeExamples

WinHexPieces ==
    { <<"i","f">>, <<"e","n","d">>, <<"K">>, <<"t">>, <<"c">>, <<"{">>, <<"}">>, <<DQ>>,
      <<SPACE>>, <<LF>> }

WinHexExamples ==
    { <<DQ,"a","b","c",LF>>,
      <<"B","e","g","i","n",LF,"s","e","c","t","i","o","n","{",LF,"E","n","d","I","f",LF>>,
      <<" ","I","f","E","q","u","a","l"," ","i","f",LF,"e","n","d","-","i","f",LF,"}","e","n","d",LF>>,
      <<"b","e","g","i","n","s",LF,"k"," ","b","e","g","i","n",LF,"{","}","}"," ","e","n","d","i","f",LF>> }

WinHexDocs == DocsOver(WinHexPieces) \cup WinHexExamples

-----------------------------------------------------------------------------
(* The host: first a tokenizer pass over consecutive line-aligned chunks,  *)
(* then fold passes over consecutive line-aligned chunks                   *)

ChunkEnds(from) == {q \in LineStarts \cup {Len(doc)} : q > from}
InitStyleAt(p) == IF p = 0 THEN 0 ELSE StyleAt(Bind(ScIdle), p - 1)

Init ==
    /\ lexer \in {"dart", "haxe", "winhex"}
    /\ doc \in CASE lexer = "dart" -> DartDocs
                 [] lexer = "haxe" -> HaxeDocs
                 [] lexer = "winhex" -> WinHexDocs
    /\ foldProp \in IF lexer = "winhex" THEN BOOLEAN ELSE {TRUE}
    /\ pc = "idle"
    /\ sc = ScIdle
    /\ fd = FdIdle
    /\ styles = [i \in 1..Len(doc) |-> Unstyled]
    /\ lineState = [l \in 1..NumLines |-> 0]
    /\ levels = [l \in 1..NumLines |-> SC_FOLDLEVELBASE]
    /\ endStyled = 0
    /\ endFolded = 0

\* the host calls Colourise...Doc(startPos, lengthDoc, initStyle) for the next chunk
LexEnter(name, prologue(_, _, _, _)) ==
    /\ pc = "idle" /\ lexer = name
    /\ \E end \in ChunkEnds(endStyled) :
          sc' = Locals(prologue(Bind(ScIdle), endStyled, end - endStyled, InitStyleAt(endStyled)))
    /\ pc' = "lex"
    /\ UNCHANGED <<lexer, doc, foldProp, fd, styles, lineState, levels, endStyled, endFolded>>

\* one iteration of the scanner's main loop
LexIter(name, step(_)) ==
    /\ pc = "lex" /\ lexer = name
    /\ More(sc)
    /\ LET r == step(Bind(sc))
       IN /\ sc' = Locals(r)
          /\ styles' = r.styles
          /\ lineState' = r.lineState
          /\ levels' = r.levels
    /\ UNCHANGED <<lexer, doc, foldProp, pc, fd, endStyled, endFolded>>

\* sc.Complete() and the return
LexExit(name) ==
    /\ pc = "lex" /\ lexer = name
    /\ ~More(sc)
    /\ styles' = Complete(Bind(sc)).styles
    /\ sc' = Locals(Complete(Bind(sc)))
    /\ endStyled' = sc.endPos
    /\ pc' = "idle"
    /\ UNCHANGED <<lexer, doc, foldProp, fd, lineState, levels, endFolded>>

WinHexEnter(base, startPos, lengthDoc, initStyle) ==
    WinHexPrologue(base, startPos, lengthDoc, initStyle, foldProp)

ColouriseDartDocEnter == LexEnter("dart", DartPrologue)
ColouriseDartDocIter == LexIter("dart", DartStep)
ColouriseDartDocExit == LexExit("dart")
ColouriseHaxeDocEnter == LexEnter("haxe", HaxePrologue)
ColouriseHaxeDocIter == LexIter("haxe", HaxeStep)
ColouriseHaxeDocExit == LexExit("haxe")
ColouriseWinHexDocEnter == LexEnter("winhex", WinHexEnter)
ColouriseWinHexDocIter == LexIter("winhex", WinHexStep)
ColouriseWinHexDocExit == LexExit("winhex")

\* the host calls Fold...Doc(startPos, lengthDoc, initStyle) once the text is styled
FoldEnter(name, prologue(_, _, _, _)) ==
    /\ pc = "idle" /\ lexer = name
    /\ endStyled = Len(doc)
    /\ \E end \in ChunkEnds(endFolded) :
          fd' = Locals(prologue(Bind(FdIdle), endFolded, end - endFolded, InitStyleAt(endFolded)))
    /\ pc' = "fold"
    /\ UNCHANGED <<lexer, doc, foldProp, sc, styles, lineState, levels, endStyled, endFolded>>

\* one iteration of the fold pass's main loop
FoldIter(name, step(_)) ==
    /\ pc = "fold" /\ lexer = name
    /\ fd.startPos < fd.endPos
    /\ LET r == step(Bind(fd))
       IN /\ fd' = Locals(r)
          /\ levels' = r.levels
    /\ UNCHANGED <<lexer, doc, foldProp, pc, sc, styles, lineState, endStyled, endFolded>>

\* the return of the fold pass
FoldExit(name) ==
    /\ pc = "fold" /\ lexer = name
    /\ ~(fd.startPos < fd.endPos)
    /\ endFolded' = fd.endPos
    /\ pc' = "idle"
    /\ UNCHANGED <<lexer, doc, foldProp, sc, fd, styles, lineState, levels, endStyled>>

FoldDartDocEnter == FoldEnter("dart", FoldDartPrologue)
FoldDartDocIter == FoldIter("dart", FoldDartStep)
FoldDartDocExit == FoldExit("dart")
FoldHaxeDocEnter == FoldEnter("haxe", FoldHaxePrologue)
FoldHaxeDocIter == FoldIter("haxe", FoldHaxeStep)
FoldHaxeDocExit == FoldExit("haxe")

Next ==
    \/ ColouriseDartDocEnter
    \/ ColouriseDartDocIter
    \/ ColouriseDartDocExit
    \/ ColouriseHaxeDocEnter
    \/ ColouriseHaxeDocIter
    \/ ColouriseHaxeDocExit
    \/ ColouriseWinHexDocEnter
    \/ ColouriseWinHexDocIter
    \/ ColouriseWinHexDocExit
    \/ FoldDartDocEnter
    \/ FoldDartDocIter
    \/ FoldDartDocExit
    \/ FoldHaxeDocEnter
    \/ FoldHaxeDocIter
    \/ FoldHaxeDocExit

Spec == Init /\ [][Next]_vars

-----------------------------------------------------------------------------
(* A whole-buffer scan from offset 0, as one call *)

FreshBuffer ==
    [ScIdle EXCEPT !.styles = [i \in 1..Len(doc) |-> Unstyled],
                   !.lineState = [l \in 1..NumLines |-> 0],
                   !.levels = [l \in 1..NumLines |-> SC_FOLDLEVELBASE]]

RECURSIVE DartRun(_)
DartRun(c) == IF More(c) THEN DartRun(DartStep(c)) ELSE Complete(c)
RECURSIVE HaxeRun(_)
HaxeRun(c) == IF More(c) THEN HaxeRun(HaxeStep(c)) ELSE Complete(c)

DartWhole == DartRun(DartPrologue(FreshBuffer, 0, Len(doc), SCE_DART_DEFAULT))
HaxeWhole == HaxeRun(HaxePrologue(FreshBuffer, 0, Len(doc), SCE_HAXE_DEFAULT))

LexDone == pc = "idle" /\ endStyled = Len(doc)
\* the running call is the only call of the tokenizer pass
OneCall == pc = "lex" /\ sc.endPos = Len(doc) /\ endStyled = 0

-----------------------------------------------------------------------------
(* Claims *)

\* C1: Dart resumability: once the chunked tokenizer pass has covered the buffer,
\* every character has the style a single call from offset 0 gives it.
C1_DartResumable ==
    (lexer = "dart" /\ LexDone) => styles = DartWhole.styles

\* C2: Haxe resumability: once the chunked tokenizer pass has covered the buffer,
\* every character has the style a single call from offset 0 gives it.
C2_HaxeResumable ==
    (lexer = "haxe" /\ LexDone) => styles = HaxeWhole.styles

\* the scanner of the selected lexer: one iteration, and its highest style number
StepOf(c) ==
    CASE lexer = "dart" -> DartStep(c)
      [] lexer = "haxe" -> HaxeStep(c)
      [] OTHER -> WinHexStep(c)
MaxStyle ==
    CASE lexer = "dart" -> SCE_DART_LABEL
      [] lexer = "haxe" -> SCE_HAXE_FUNCTION_DEFINITION
      [] OTHER -> SCE_WINHEX_COMMAND

SwitchOf(c) ==
    CASE lexer = "dart" -> DartSwitch(c)
      [] lexer = "haxe" -> HaxeSwitch(c)
      [] OTHER -> WinHexSwitch(c)
DefaultOf(c) ==
    CASE lexer = "dart" -> DartDefault(c)
      [] lexer = "haxe" -> HaxeDefault(c)
      [] OTHER -> WinHexDefault(c)

\* the default, operator and interpolation-operator styles of the selected lexer
StDefault ==
    CASE lexer = "dart" -> SCE_DART_DEFAULT
      [] lexer = "haxe" -> SCE_HAXE_DEFAULT
      [] OTHER -> SCE_WINHEX_DEFAULT
StOperator ==
    CASE lexer = "dart" -> SCE_DART_OPERATOR
      [] lexer = "haxe" -> SCE_HAXE_OPERATOR
      [] OTHER -> SCE_WINHEX_OPERATOR
StOperator2 == IF lexer = "dart" THEN SCE_DART_OPERATOR2 ELSE SCE_HAXE_OPERATOR2

\* the running call with its arrays, at the head of an iteration
AtHead == [Bind(sc) EXCEPT !.cont = FALSE]
Iterating == pc = "lex" /\ More(sc)

InDartComment(c) == c.state \in {SCE_DART_COMMENTBLOCK, SCE_DART_COMMENTBLOCKDOC}
CommentExample ==
    <<"/","*"," ","a"," ","/","*"," ","b"," ","*","/"," ","c"," ","*","/"," ","d">>

\* C5: Dart nested block comments: "/*" in the default state opens a comment at
\* level 1; inside a block comment the level is at least 1, "/*" increments it, "*/"
\* decrements it, nothing else changes it, and the comment token ends exactly after
\* the "*/" that brings the level to zero; "/* a /* b */ c */ d" is one block
\* comment up to and including the second "*/", then a default space and the
\* identifier d.
C5_NestedComments ==
    lexer = "dart" =>
      /\ Iterating =>
            LET a == DartSwitch(AtHead)
                r == DartDefault(a)
            IN (~a.cont /\ a.state = SCE_DART_DEFAULT /\ Match2(a, "/", "*")) =>
                  (InDartComment(r) /\ r.commentLevel = 1)
      /\ (Iterating /\ InDartComment(sc)) =>
            LET r == DartSwitch(AtHead)
            IN /\ sc.commentLevel >= 1
               /\ r.commentLevel =
                     IF Match2(sc, "*", "/") THEN sc.commentLevel - 1
                     ELSE IF Match2(sc, "/", "*") THEN sc.commentLevel + 1
                     ELSE sc.commentLevel
               /\ IF r.commentLevel = 0
                  THEN /\ r.state = SCE_DART_DEFAULT
                       /\ r.startSeg = sc.currentPos + 2
                       /\ \A p \in sc.startSeg..(sc.currentPos + 1) :
                              r.styles[p + 1] = sc.state
                  ELSE r.state = sc.state /\ r.startSeg = sc.startSeg
      /\ (doc = CommentExample /\ LexDone) =>
            styles = [i \in 1..19 |-> IF i <= 17 THEN SCE_DART_COMMENTBLOCK
                                      ELSE IF i = 18 THEN SCE_DART_DEFAULT
                                      ELSE SCE_DART_IDENTIFIER]

\* the scanner is at the inner "*/" of the example, two levels deep
C5_Witness ==
    /\ lexer = "dart" /\ doc = CommentExample /\ Iterating
    /\ InDartComment(sc) /\ sc.commentLevel = 2 /\ Match2(sc, "*", "/")

\* the styles of strings that end with their line
IsSingleLineString(style) ==
    CASE lexer = "dart" -> style \in {SCE_DART_STRING_SQ, SCE_DART_STRING_DQ,
                                      SCE_DART_RAWSTRING_SQ, SCE_DART_RAWSTRING_DQ}
      [] lexer = "winhex" -> style = SCE_WINHEX_STRING
      [] OTHER -> FALSE
\* a string literal opens at position p
OpensString(p) ==
    CASE lexer = "dart" -> \/ CharAt(p) \in {DQ, SQ}
                           \/ (CharAt(p) = "r" /\ CharAt(p + 1) \in {DQ, SQ})
      [] lexer = "winhex" -> CharAt(p) = DQ
      [] OTHER -> FALSE
\* the first characters of the lines after a line break that a returned call styled
StyledLineStarts == {p \in LineStarts : p > 0 /\ p < endStyled}

\* C6 as stated: the first character of a line is never styled as a single-line
\* (non-triple) string, in Dart and WinHex.
C6_FirstCharNeverString ==
    pc = "idle" => \A p \in StyledLineStarts : ~IsSingleLineString(styles[p + 1])

\* C6: Single-line strings do not cross a line break in Dart and WinHex: a scanner
\* that reaches the first character of a line in a single-line string style switches
\* to the default state before it classifies the character, so the first character
\* of a line has a single-line string style only when a string literal opens at it.
C6_SingleLineStrings ==
    /\ (Iterating /\ sc.atLineStart /\ IsSingleLineString(sc.state)) =>
          LET r == SwitchOf(AtHead)
              fresh == SetState(AtHead, StDefault)
          IN /\ r.state = StDefault /\ ~r.cont
             /\ StepOf(AtHead) = StepOf(fresh)
    /\ pc = "idle" =>
          \A p \in StyledLineStarts : IsSingleLineString(styles[p + 1]) => OpensString(p)

\* the scanner reaches the first character of a line in a single-line string style,
\* and the character is not a quote
C6_Witness ==
    /\ Iterating /\ sc.atLineStart /\ IsSingleLineString(sc.state)
    /\ sc.currentPos > 0 /\ ~OpensString(sc.currentPos)

InterpolatingString(c) ==
    CASE lexer = "dart" -> /\ c.state \in SCE_DART_STRING_SQ..SCE_DART_TRIPLE_STRING_DQ
                           /\ ~(c.atLineStart /\ ~IsTripleString(c.state))
      [] lexer = "haxe" -> c.state = SCE_HAXE_STRINGSQ
      [] OTHER -> FALSE
InterpExample == <<"x","$","{"," ","{","1",":","2","}"," ","}","y">>
\* the styles of the quoted example: string S up to "${", the map literal in between
\* in default, operator and number styles, string S again after the second '}'
InterpExampleStyles(S, N) ==
    <<S, S, StOperator2, StOperator2, StDefault, StOperator, N, StOperator, N, StOperator,
      StDefault, StOperator2, S, S>>

\* C7: Brace interpolation stack discipline (Dart non-raw strings, Haxe single-quoted
\* strings): "${" in string style S pushes S and is styled as interpolation operator;
\* with a non-empty stack, '{' lexed in the default state pushes a default marker
\* and '}' lexed in the default state pops one entry: popping a default marker
\* styles '}' as plain operator and stays in default, popping S styles '}' as
\* interpolation operator and continues in S; in "x${ {1:2} }y" the string resumes
\* at the second '}'.
C7_BraceInterpolation ==
    lexer \in {"dart", "haxe"} =>
      /\ Iterating =>
            LET a == SwitchOf(AtHead)
                r == DefaultOf(a)
                n == Len(a.nestedState)
                lexed == ~a.cont /\ a.state = StDefault /\ n > 0
            IN /\ (InterpolatingString(AtHead) /\ Match2(sc, "$", "{")) =>
                     /\ a.nestedState = Append(sc.nestedState, sc.state)
                     /\ a.state = StOperator2 /\ a.currentPos = sc.currentPos + 1
               /\ (lexed /\ a.ch = "{") =>
                     /\ r.nestedState = Append(a.nestedState, StDefault)
                     /\ r.state = StOperator /\ r.currentPos = a.currentPos
               /\ (lexed /\ a.ch = "}") =>
                     /\ r.nestedState = SubSeq(a.nestedState, 1, n - 1)
                     /\ r.state = a.nestedState[n]
                     /\ r.currentPos = a.currentPos + 1
                     /\ r.styles[a.currentPos + 1] =
                           IF a.nestedState[n] = StDefault THEN StOperator ELSE StOperator2
      /\ (lexer = "dart" /\ doc = <<DQ>> \o InterpExample \o <<DQ>> /\ LexDone) =>
            styles = InterpExampleStyles(SCE_DART_STRING_DQ, SCE_DART_NUMBER)
      /\ (lexer = "haxe" /\ doc = <<SQ>> \o InterpExample \o <<SQ>> /\ LexDone) =>
            styles = InterpExampleStyles(SCE_HAXE_STRINGSQ, SCE_HAXE_NUMBER)

\* the scanner is at the second '}' of the example with only the string left on the
\* stack
C7_Witness ==
    /\ lexer = "dart" /\ doc = <<DQ>> \o InterpExample \o <<DQ>> /\ Iterating
    /\ sc.currentPos = 11 /\ sc.nestedState = <<SCE_DART_STRING_DQ>>

\* the first of the styles whose list (by index) contains s, or none
RECURSIVE FirstListStyle(_, _, _, _)
FirstListStyle(lists, order, s, none) ==
    IF order = <<>> THEN none
    ELSE IF s \in lists[Head(order)[1] + 1] THEN Head(order)[2]
    ELSE FirstListStyle(lists, Tail(order), s, none)

\* the keyword lists in the order of the claim, each with the style it gives
DartPriority ==
    << <<0, SCE_DART_WORD>>, <<1, SCE_DART_WORD2>>, <<2, SCE_DART_CLASS>>, <<3, SCE_DART_ENUM>> >>
HaxePriority ==
    << <<0, SCE_HAXE_WORD>>, <<2, SCE_HAXE_CLASS>>, <<3, SCE_HAXE_INTERFACE>>,
       <<4, SCE_HAXE_ENUM>>, <<5, SCE_HAXE_CONSTANT>> >>
WinHexPriority ==
    << <<0, SCE_WINHEX_KEYWORD>>, <<1, SCE_WINHEX_TYPE>>, <<2, SCE_WINHEX_COMMAND>> >>

\* the scanner is in the identifier state at the character that ends the lexeme
LexemeCompletes ==
    /\ Iterating
    /\ CASE lexer = "dart" -> sc.state = SCE_DART_IDENTIFIER /\ ~IsIdentifierCharEx(sc.ch)
          [] lexer = "haxe" -> /\ sc.state = SCE_HAXE_IDENTIFIER /\ ~IsIdentifierCharEx(sc.ch)
                               /\ CharAt(sc.startSeg) # "#"
          [] OTHER -> /\ sc.state = SCE_WINHEX_IDENTIFIER
                      /\ ~IsIdentifierChar(sc.ch) /\ sc.ch # "-"
\* the lexeme as the lists are asked for it, and the style the lists give it
Lexeme == IF lexer = "winhex" THEN GetCurrentLowered(AtHead, 64) ELSE GetCurrent(AtHead, 128)
ListStyle ==
    CASE lexer = "dart" -> FirstListStyle(DartKeywordLists, DartPriority, Lexeme, Unstyled)
      [] lexer = "haxe" -> FirstListStyle(HaxeKeywordLists, HaxePriority, Lexeme, Unstyled)
      [] OTHER -> FirstListStyle(WinHexKeywordLists, WinHexPriority, Lexeme, Unstyled)

\* C8: Keyword priority: when an identifier lexeme completes, the iteration styles the
\* whole lexeme by the first keyword list that contains it (Dart: Keyword, Type, Class,
\* Enumeration; Haxe: Keyword, Class, Interface, Enumeration, Constant; WinHex, on the
\* lowercased lexeme: Keyword, Type, Command), whatever the character after it, the
\* significant character before it and the pending keyword type; so a word of the
\* Keyword list is never styled as type, class, enum, key, label or function.
C8_KeywordPriority ==
    (LexemeCompletes /\ ListStyle # Unstyled) =>
        \A p \in sc.startSeg..(sc.currentPos - 1) : StepOf(AtHead).styles[p + 1] = ListStyle

\* the word k, which every Dart list holds, completes before ':' while a class name is
\* expected (after "is")
C8_Witness ==
    /\ lexer = "dart" /\ LexemeCompletes /\ Lexeme = <<"k">>
    /\ sc.kwType = DartKwClass /\ sc.ch = ":"

\* the fold pass has covered the buffer
FoldDone == pc = "idle" /\ endStyled = Len(doc) /\ endFolded = Len(doc)

\* the halves of the record of line l (0-based): the level of the line, without the
\* header flag, and the level of the line after it
RecNext(l) == Shr(levels[l + 1], 16)
RecCur(l) ==
    LET low == levels[l + 1] % (2 ^ 16)
    IN IF low >= SC_FOLDLEVELHEADERFLAG THEN low - SC_FOLDLEVELHEADERFLAG ELSE low
\* a record has been written for line l (every written record has a next level)
Written(l) == levels[l + 1] # SC_FOLDLEVELBASE

\* braces by line
BracesOn(l) == {p \in LineStart(l)..(LineStart(l + 1) - 1) : CharAt(p) \in {"{", "}"}}
LineBrace(l) == IF BracesOn(l) = {} THEN NUL ELSE CharAt(CHOOSE p \in BracesOn(l) : TRUE)
DepthBefore(l) ==
    Cardinality({k \in 0..(l - 1) : LineBrace(k) = "{"})
    - Cardinality({k \in 0..(l - 1) : LineBrace(k) = "}"})
\* the document holds only braces and white space, one brace per line at most, balanced
BalancedBraces ==
    /\ \A i \in 1..Len(doc) : doc[i] \in {"{", "}", SPACE, LF}
    /\ \A l \in 0..(NumLines - 1) : Cardinality(BracesOn(l)) <= 1
    /\ \A l \in 0..NumLines : DepthBefore(l) >= 0
    /\ DepthBefore(NumLines) = 0
    /\ \E l \in 0..(NumLines - 1) : LineBrace(l) = "}"
\* the line of the '{' that the '}' of line n closes
MatchLine(n) ==
    CHOOSE m \in 0..(n - 1) :
        /\ LineBrace(m) = "{" /\ DepthBefore(m) = DepthBefore(n) - 1
        /\ \A k \in (m + 1)..(n - 1) : LineBrace(k) = "{" => DepthBefore(k) # DepthBefore(m)
LastBraceLine == CHOOSE l \in 0..(NumLines - 1) :
                    LineBrace(l) # NUL /\ \A k \in (l + 1)..(NumLines - 1) : LineBrace(k) = NUL
\* the brace that begins line m is folded into line m - 1 as a hanging brace
Hanging(m) ==
    /\ m > 0 /\ m < NumLines
    /\ IF lexer = "dart"
       THEN CheckBraceOnNextLine(Bind(FdIdle), m - 1, SCE_DART_OPERATOR,
                                 SCE_DART_TASKMARKER, 0) # 0
       ELSE CheckBraceOnNextLine(Bind(FdIdle), m - 1, SCE_HAXE_OPERATOR,
                                 SCE_HAXE_TASKMARKER, SCE_HAXE_PREPROCESSOR) # 0
BraceFoldDone == lexer \in {"dart", "haxe"} /\ FoldDone /\ BalancedBraces

HeldLevel(line, level) ==
    level = IF line = 0 THEN SC_FOLDLEVELBASE ELSE RecNext(line - 1)

\* C10: Fold record shape and continuity (FoldDartDoc, FoldHaxeDoc, the WinHex scanner
\* with fold enabled): every written record is levelCurrent | (levelNext << 16) with
\* the header flag exactly when levelNext > levelCurrent; the levelCurrent of line 0
\* is the base level and the levelCurrent of a line n > 0 is the next level in the
\* record of line n - 1, which is also the level a pass that starts at line n holds.
C10_FoldRecords ==
    /\ \A l \in 0..(NumLines - 1) :
          Written(l) =>
            /\ levels[l + 1] = FoldRecord(RecCur(l), RecNext(l))
            /\ HeldLevel(l, RecCur(l))
            /\ l > 0 => Written(l - 1)
    /\ (pc = "fold" /\ fd.startPos < fd.endPos) => HeldLevel(fd.lineCurrent, fd.levelCurrent)
    /\ (pc = "lex" /\ lexer = "winhex" /\ sc.fold /\ More(sc)) =>
          HeldLevel(sc.currentLine, sc.levelCurrent)
    /\ (lexer = "winhex" /\ ~foldProp) => \A l \in 0..(NumLines - 1) : ~Written(l)

\* a fold pass that started after line 0, inside an open block, has written a record
C10_Witness ==
    /\ pc = "fold" /\ endFolded > 0
    /\ GetLine(endFolded) < fd.lineCurrent
    /\ RecNext(GetLine(endFolded) - 1) > SC_FOLDLEVELBASE
    /\ Written(fd.lineCurrent - 1)

\* the escape style of the selected lexer and the string styles in which a backslash
\* is looked at
StEscape == IF lexer = "dart" THEN SCE_DART_ESCAPECHAR ELSE SCE_HAXE_ESCAPECHAR
EscapeEligible(state) ==
    IF lexer = "dart" THEN state \in SCE_DART_STRING_SQ..SCE_DART_TRIPLE_STRING_DQ
    ELSE state \in {SCE_HAXE_STRINGSQ, SCE_HAXE_STRINGDQ}
\* for the backslash at b: the brace form, the most characters the escape may cover,
\* and the digits of its base
EscBrace(b) == CharAt(b + 1) = "u" /\ CharAt(b + 2) = "{"
EscOctal(b) == lexer = "haxe" /\ IsOctalDigit(CharAt(b + 1))
EscLimit(b) ==
    IF EscBrace(b) THEN 10
    ELSE IF CharAt(b + 1) = "u" THEN 6
    ELSE IF CharAt(b + 1) = "x" \/ EscOctal(b) THEN 4
    ELSE 2
EscDigit(b, ch) == IF EscOctal(b) THEN IsOctalDigit(ch) ELSE IsHexDigit(ch)
LexingStrings == Iterating /\ lexer \in {"dart", "haxe"}

\* C11: Escape sequences are bounded and return to their string: a backslash in an
\* escape-eligible string style S starts no escape before an end-of-line character
\* (the scanner stays in S); otherwise the escape covers at most 2 characters, 4 for
\* "\x" (and a leading octal digit in Haxe), 6 for "\u", and for "\u{" at most 6
\* digits and a closing "}" that it consumes; it ends at the first character that is
\* not a digit of its base, and then the scanner is back in S.
C11_EscapeBounded ==
    /\ (/\ LexingStrings /\ EscapeEligible(sc.state) /\ sc.ch = BSL
        /\ ~(lexer = "dart" /\ sc.atLineStart /\ ~IsTripleString(sc.state))) =>
          LET r == SwitchOf(AtHead)
          IN IF IsEOLChar(sc.chNext)
             THEN r.state = sc.state /\ StepOf(AtHead).state = sc.state
             ELSE /\ r.state = StEscape /\ r.outerState = sc.state
                  /\ r.startSeg = sc.currentPos
    /\ (LexingStrings /\ sc.state = StEscape) =>
          LET r == SwitchOf(AtHead)
              b == sc.startSeg
          IN /\ EscapeEligible(sc.outerState)
             /\ CharAt(b) = BSL
             /\ IF r.state = StEscape
                THEN /\ EscDigit(b, sc.ch)
                     /\ sc.currentPos + 1 - b <= EscLimit(b)
                     /\ r.currentPos = sc.currentPos
                     /\ r.outerState = sc.outerState
                ELSE /\ r.state = sc.outerState
                     /\ r.startSeg = r.currentPos
                     /\ r.startSeg - b <= EscLimit(b)
                     /\ \A p \in b..(r.startSeg - 1) : r.styles[p + 1] = StEscape
                     /\ r.currentPos # sc.currentPos =>
                           /\ EscBrace(b) /\ sc.ch = "}"
                           /\ r.currentPos = sc.currentPos + 1

\* an escape of the brace form ends on its "}" after six digits
C11_Witness ==
    /\ LexingStrings /\ sc.state = StEscape
    /\ EscBrace(sc.startSeg) /\ sc.ch = "}"
    /\ sc.currentPos + 1 - sc.startSeg = EscLimit(sc.startSeg)
    /\ SwitchOf(AtHead).currentPos = sc.currentPos + 1

\* the style of position p as the running call has decided it: the open segment has
\* the scanner's state
StyleSoFar(p) == IF p >= sc.startSeg THEN sc.state ELSE styles[p + 1]
\* the "$(" that opened the interpolation the scanner is in, and the parentheses of
\* the interpolated expression that are still open at the cursor
ParenOpeners ==
    {q \in 0..(sc.currentPos - 2) :
        /\ CharAt(q) = "$" /\ CharAt(q + 1) = "("
        /\ StyleSoFar(q) = SCE_DART_OPERATOR2 /\ StyleSoFar(q + 1) = SCE_DART_OPERATOR2}
ParenOpener == CHOOSE q \in ParenOpeners : \A o \in ParenOpeners : o <= q
ParenDepth ==
    Cardinality({p \in (ParenOpener + 2)..(sc.currentPos - 1) :
                    CharAt(p) = "(" /\ StyleSoFar(p) = SCE_DART_OPERATOR})
    - Cardinality({p \in (ParenOpener + 2)..(sc.currentPos - 1) :
                    CharAt(p) = ")" /\ StyleSoFar(p) = SCE_DART_OPERATOR})
\* a ")" is lexed in the default state inside a "$(" interpolation
AtInterpolationParen ==
    /\ Iterating /\ lexer = "dart"
    /\ sc.simpleStringInterpolation /\ sc.ch = ")"
    /\ ParenOpeners # {}
    /\ DartSwitch(AtHead).state = SCE_DART_DEFAULT /\ ~DartSwitch(AtHead).cont
ResumesString(r) ==
    /\ r.state = sc.outerState /\ r.styles[sc.currentPos + 1] = SCE_DART_OPERATOR2
    /\ ~r.simpleStringInterpolation

\* C12: Dart parenthesised interpolation closes at the matching parenthesis: inside
\* "$(" a ")" lexed in the default state resumes the string exactly when no
\* parenthesis of the interpolated expression is open, so the ")" of a nested
\* sub-expression does not resume it.
C12_MatchingParen ==
    AtInterpolationParen => (ResumesString(DartStep(AtHead)) <=> ParenDepth = 0)

HaxeStringStyles == {SCE_HAXE_STRINGSQ, SCE_HAXE_STRINGDQ}
\* the Haxe scanner is at the first character of a line with a string still open
HaxeStringAtLineStart ==
    /\ Iterating /\ lexer = "haxe"
    /\ sc.atLineStart /\ sc.currentPos > 0
    /\ sc.state \in HaxeStringStyles
\* the character at the cursor starts an escape or an interpolation in the open string
HaxeStringSpecial ==
    \/ sc.ch = BSL /\ ~IsEOLChar(sc.chNext)
    \/ /\ sc.ch = "$" /\ sc.state = SCE_HAXE_STRINGSQ
       /\ (sc.chNext = "{" \/ IsIdentifierStartEx(sc.chNext))

HaxeBlockComments == {SCE_HAXE_COMMENTBLOCK, SCE_HAXE_COMMENTBLOCKDOC}
InHaxeComment == Iterating /\ lexer = "haxe" /\ sc.state \in HaxeBlockComments
\* the nesting counter of the claim: "/*" and "*/" matched from left to right in
\* [from, to), starting at depth d
RECURSIVE CommentDepth(_, _, _)
CommentDepth(from, to, d) ==
    IF from >= to THEN d
    ELSE IF CharAt(from) = "/" /\ CharAt(from + 1) = "*" THEN CommentDepth(from + 2, to, d + 1)
    ELSE IF CharAt(from) = "*" /\ CharAt(from + 1) = "/" THEN CommentDepth(from + 2, to, d - 1)
    ELSE CommentDepth(from + 1, to, d)

MaxLines == 2
LinePieces ==
    { <<"/","/",LF>>, <<"i","m","p","o","r","t",LF>>, <<"{",LF>>, <<"}",LF>>,
      <<"/","*",LF>>, <<"*","/",LF>> }
LineDocs == {Flatten(f) : f \in UNION {[1..n -> LinePieces] : n \in 0..MaxLines}}
LineExamples ==
    { <<"/","/",LF,"/","/",LF,"/","/",LF>>,
      <<"i","m","p","o","r","t",LF,"i","m","p","o","r","t",LF,"i","m","p","o","r","t",LF>>,
      <<"{",LF,"/","/",LF,"/","/",LF,"}",LF>>,
      <<"i","m","p","o","r","t"," ","/","*",LF,"*","/",LF>>,
      <<"i","m","p","o","r","t"," ","(",LF,"i","m","p","o","r","t",LF>> }
InitLines ==
    /\ lexer \in {"dart", "haxe", "winhex"}
    /\ doc \in IF lexer = "winhex" THEN WinHexExamples ELSE LineDocs \cup LineExamples
    /\ foldProp \in IF lexer = "winhex" THEN BOOLEAN ELSE {TRUE}
    /\ pc = "idle"
    /\ sc = ScIdle
    /\ fd = FdIdle
    /\ styles = [i \in 1..Len(doc) |-> Unstyled]
    /\ lineState = [l \in 1..NumLines |-> 0]
    /\ levels = [l \in 1..NumLines |-> SC_FOLDLEVELBASE]
    /\ endStyled = 0
    /\ endFolded = 0
SpecLines == InitLines /\ [][Next]_vars

\* the two halves of the fold record of line l in the arrays of c
RecordOf(c, l) ==
    LET low == c.levels[l + 1] % (2 ^ 16)
    IN [cur |-> IF low >= SC_FOLDLEVELHEADERFLAG THEN low - SC_FOLDLEVELHEADERFLAG ELSE low,
        next |-> Shr(c.levels[l + 1], 16)]

\* the fold pass of the selected lexer: one iteration, and its prologue
FoldStepOf(f) == IF lexer = "dart" THEN FoldDartStep(f) ELSE FoldHaxeStep(f)
FoldPrologueOf(base, startPos, lengthDoc, initStyle) ==
    IF lexer = "dart" THEN FoldDartPrologue(base, startPos, lengthDoc, initStyle)
    ELSE FoldHaxePrologue(base, startPos, lengthDoc, initStyle)
PrologueOf(base, startPos, lengthDoc, initStyle) ==
    IF lexer = "dart" THEN DartPrologue(base, startPos, lengthDoc, initStyle)
    ELSE HaxePrologue(base, startPos, lengthDoc, initStyle)

\* the arrays with the line state, or the fold record, of line l replaced
PokeLineState(c, l, v) == [c EXCEPT !.lineState[l + 1] = v]
PokeLevel(c, l, v) == [c EXCEPT !.levels[l + 1] = v]
\* other values for a line state (a flag flipped, one more comment level) and for a
\* fold record
OtherLineStates(x) ==
    { IF BitAnd(x, 1) = 0 THEN x + 1 ELSE x - 1,
      IF BitAnd(x, 2) = 0 THEN x + 2 ELSE x - 2,
      x + 4 }
OtherLevels(x) == { x + 2 ^ 16, FoldRecord(SC_FOLDLEVELBASE + 3, SC_FOLDLEVELBASE + 4) }
\* two results that differ at most in the line state of line l, or in the fold
\* record of line l
SameButLineState(r1, r2, l) ==
    /\ [r1 EXCEPT !.lineState = <<>>] = [r2 EXCEPT !.lineState = <<>>]
    /\ \A k \in 0..(NumLines - 1) : k # l => r1.lineState[k + 1] = r2.lineState[k + 1]
SameButLevel(r1, r2, l) ==
    /\ [r1 EXCEPT !.levels = <<>>] = [r2 EXCEPT !.levels = <<>>]
    /\ \A k \in 0..(NumLines - 1) : k # l => r1.levels[k + 1] = r2.levels[k + 1]
Lines == 0..(NumLines - 1)

\* rp is the result on the arrays with line l replaced by v, r the result on the
\* arrays as they are. Line l is not read when nothing else of the result changes; it
\* is written when the result there does not depend on what was there
LineStateIgnored(rp, r, l) == SameButLineState(rp, r, l)
LevelIgnored(rp, r, l) == SameButLevel(rp, r, l)
LineStateWritten(rp, r, l) == rp.lineState[l + 1] = r.lineState[l + 1]
LevelWritten(rp, r, l) == rp.levels[l + 1] = r.levels[l + 1]

\* the lines a..b of the running tokenizer pass and of the running fold pass
LexFirst == GetLine(endStyled)
LexLast == GetLine(sc.endPos - 1)
FoldFirst == GetLine(endFolded)
FoldLast == GetLine(fd.endPos - 1)
Folding == pc = "fold" /\ fd.startPos < fd.endPos
LexingLines == Iterating /\ lexer \in {"dart", "haxe"}

\* the tokenizer part of the frame: a call reads the line state of line a - 1 only,
\* an iteration reads none and writes the line state of the line whose end it
\* crosses (or, on the last character of the buffer, reaches) and no other
TokenizerFrame ==
    /\ (pc = "idle" /\ lexer \in {"dart", "haxe"}) =>
          \A end \in ChunkEnds(endStyled) :
              LET enter(c) == PrologueOf(c, endStyled, end - endStyled, InitStyleAt(endStyled))
                  r == enter(Bind(ScIdle))
              IN \A l \in Lines \ {GetLine(endStyled) - 1} :
                     \A v \in OtherLineStates(lineState[l + 1]) :
                         LineStateIgnored(enter(PokeLineState(Bind(ScIdle), l, v)), r, l)
    /\ LexingLines =>
          LET r == StepOf(AtHead)
              crossed == r.currentLine > sc.currentLine
          IN /\ r.levels = levels
             /\ crossed => r.currentLine = sc.currentLine + 1
             /\ \A l \in Lines : \A v \in OtherLineStates(lineState[l + 1]) :
                   LET rp == StepOf(PokeLineState(AtHead, l, v))
                   IN /\ LineStateIgnored(rp, r, l)
                      /\ LineStateWritten(rp, r, l) =>
                            /\ l = sc.currentLine /\ l >= LexFirst /\ l <= LexLast
                            /\ crossed \/ r.currentPos = Len(doc)
                      /\ (crossed /\ l = sc.currentLine) => LineStateWritten(rp, r, l)
\* the fold part that the code keeps: a call reads the fold record of line a - 1 only
\* and the line states of lines a - 1 and a, an iteration reads no fold record and
\* writes the record of the line it ends, in a..b, and no line state is written
FoldWriteFrame ==
    /\ (pc = "idle" /\ lexer \in {"dart", "haxe"} /\ endStyled = Len(doc)) =>
          \A end \in ChunkEnds(endFolded) :
              LET enter(c) == FoldPrologueOf(c, endFolded, end - endFolded, InitStyleAt(endFolded))
                  r == enter(Bind(FdIdle))
                  a == GetLine(endFolded)
              IN /\ \A l \in Lines \ {a - 1} : \A v \in OtherLevels(levels[l + 1]) :
                       LevelIgnored(enter(PokeLevel(Bind(FdIdle), l, v)), r, l)
                 /\ \A l \in Lines \ {a - 1, a} : \A v \in OtherLineStates(lineState[l + 1]) :
                       LineStateIgnored(enter(PokeLineState(Bind(FdIdle), l, v)), r, l)
    /\ Folding =>
          LET r == FoldStepOf(Bind(fd))
          IN /\ r.lineState = lineState
             /\ \A l \in Lines : \A v \in OtherLevels(levels[l + 1]) :
                   LET rp == FoldStepOf(PokeLevel(Bind(fd), l, v))
                   IN /\ LevelIgnored(rp, r, l)
                      /\ LevelWritten(rp, r, l) =>
                            /\ l = fd.lineCurrent /\ l >= FoldFirst /\ l <= FoldLast
                            /\ r.lineCurrent = fd.lineCurrent + 1
                      /\ (r.lineCurrent > fd.lineCurrent /\ l = fd.lineCurrent) =>
                            LevelWritten(rp, r, l)
\* the line states an iteration of the fold pass reads
FoldReadsLineState(l) ==
    \E v \in OtherLineStates(lineState[l + 1]) :
        ~LineStateIgnored(FoldStepOf(PokeLineState(Bind(fd), l, v)), FoldStepOf(Bind(fd)), l)

\* C15 as stated: a tokenizer pass over lines a..b writes a line state for exactly
\* the lines whose end it crosses and reads the line state of line a - 1 only; a fold
\* pass over lines a..b writes fold records only for lines in a..b and reads line
\* states and fold records only of lines up to b, never of a line after b.
C15_RecordFrame ==
    /\ TokenizerFrame
    /\ FoldWriteFrame
    /\ Folding => \A l \in Lines : l > FoldLast => ~FoldReadsLineState(l)

\* C15: Per-line record frame: as stated for the tokenizer pass and for the fold
\* records; the fold pass reads line states of the lines a - 1 to b + 1: an iteration
\* that ends line n reads the line state of line n + 1, also when n = b, and no
\* iteration reads another.
C15_RecordFrameNextLine ==
    /\ TokenizerFrame
    /\ FoldWriteFrame
    /\ Folding =>
          \A l \in Lines :
              FoldReadsLineState(l) =>
                /\ l = fd.lineCurrent + 1 /\ l <= FoldLast + 1
                /\ FoldStepOf(Bind(fd)).lineCurrent = l

\* a fold pass that ends inside a run of line comments or imports: the record it
\* writes for its last line depends on the line state of the line after it
C15_Witness ==
    /\ Folding /\ fd.lineCurrent = FoldLast /\ FoldLast + 1 < NumLines
    /\ FoldStepOf(Bind(fd)).lineCurrent = FoldLast + 1
    /\ \E v \in OtherLineStates(lineState[FoldLast + 2]) :
          FoldStepOf(PokeLineState(Bind(fd), FoldLast + 1, v)).levels[FoldLast + 1]
              # FoldStepOf(Bind(fd)).levels[FoldLast + 1]

\* documents that open MaxDepth - 1 or MaxDepth block comments on one line, alone or
\* inside a brace interpolation, and end the line
MaxDepth == 64
RECURSIVE Openers(_)
Openers(n) == IF n = 0 THEN <<>> ELSE <<"/", "*">> \o Openers(n - 1)
DeepDocs ==
    UNION { { Openers(n) \o <<LF>>, <<DQ, "$", "{">> \o Openers(n) \o <<LF>> } :
            n \in (MaxDepth - 1)..MaxDepth }
InitDepth ==
    /\ lexer \in {"dart", "haxe", "winhex"}
    /\ doc \in CASE lexer = "dart" -> DeepDocs
                 [] lexer = "haxe" -> HaxeExamples
                 [] lexer = "winhex" -> WinHexExamples
    /\ foldProp \in IF lexer = "winhex" THEN BOOLEAN ELSE {TRUE}
    /\ pc = "idle"
    /\ sc = ScIdle
    /\ fd = FdIdle
    /\ styles = [i \in 1..Len(doc) |-> Unstyled]
    /\ lineState = [l \in 1..NumLines |-> 0]
    /\ levels = [l \in 1..NumLines |-> SC_FOLDLEVELBASE]
    /\ endStyled = 0
    /\ endFolded = 0
SpecDepth == InitDepth /\ [][Next]_vars

\* the Dart scanner where this iteration reaches the line-end code, and the line
\* state it writes there
DartBeforeLineEnd == DartDefault(DartSwitch(AtHead))
DartWritesLineState ==
    /\ Iterating /\ lexer = "dart"
    /\ ~DartSwitch(AtHead).cont /\ ~DartBeforeLineEnd.cont
    /\ DartBeforeLineEnd.atLineEnd
DartWrittenLineState == GetLineState(DartLineEnd(DartBeforeLineEnd), DartBeforeLineEnd.currentLine)

\* C16: Comment depth stays inside its 6-bit field: whatever the nesting depth, the
\* line state written at a Dart line end holds the depth wrapped or saturated in bits
\* 2..7, the line-type flags in bits 0..1 and, decoded from bits 8 and up, the
\* scanner's nested-state stack.
C16_DepthInField ==
    DartWritesLineState =>
        LET x == DartWrittenLineState
            b == DartBeforeLineEnd
        IN /\ DartDecodeCommentLevel(x) \in {b.commentLevel % 64, Min(b.commentLevel, 63)}
           /\ BitAnd(x, 3) = b.lineStateLineType
           /\ DartDecodeNestedState(x) = b.nestedState

\* the significant character before position p: the nearest earlier character that
\* is not white space and whose style is not a space-equivalent one (NUL when none)
DartSignificantBefore(p) ==
    LET sig == {q \in 0..(p - 1) :
                   ~isspacechar(CharAt(q)) /\ ~DartIsSpaceEquiv(StyleAt(Bind(sc), q))}
    IN IF sig = {} THEN NUL ELSE CharAt(CHOOSE q \in sig : \A o \in sig : o <= q)
\* a Dart identifier lexeme that is in none of the four lists completes before ':'
DartPlainBeforeColon ==
    /\ lexer = "dart" /\ LexemeCompletes /\ ListStyle = Unstyled
    /\ sc.ch = ":"

C17_WitnessKey ==
    /\ DartPlainBeforeColon /\ endStyled > 0 /\ sc.startSeg = endStyled
    /\ DartStep(AtHead).styles[sc.startSeg + 1] = SCE_DART_KEY
\* a label after ';'
C17_WitnessLabel ==
    /\ DartPlainBeforeColon /\ DartSignificantBefore(sc.startSeg) = ";"
    /\ DartStep(AtHead).styles[sc.startSeg + 1] = SCE_DART_LABEL

\* the flag value None and the keyword style of the selected lexer
StKwNone == IF lexer = "dart" THEN DartKwNone ELSE HaxeKwNone
StWord == IF lexer = "dart" THEN SCE_DART_WORD ELSE SCE_HAXE_WORD
\* an identifier lexeme that is not a keyword completes while a flag is pending
FlagMeetsLexeme ==
    /\ lexer \in {"dart", "haxe"} /\ LexemeCompletes
    /\ ListStyle # StWord
    /\ sc.kwType # StKwNone
\* the flag changes the style of the completing lexeme
FlagStylesLexeme ==
    \E p \in sc.startSeg..(sc.currentPos - 1) :
        StepOf(AtHead).styles[p + 1] # StepOf([AtHead EXCEPT !.kwType = StKwNone]).styles[p + 1]

\* C18 as stated: Expected-category flag is one-shot: once the first identifier
\* lexeme after the keyword has completed the flag is None.
C18_FlagOneShot == FlagMeetsLexeme => StepOf(AtHead).kwType = StKwNone

\* C18: Expected-category flag: the flag is consumed by the first identifier lexeme
\* after the keyword that is not followed by '.': when that lexeme completes the flag
\* is None; a lexeme followed by '.' is not styled by the flag and leaves it pending
\* for the next lexeme.
C18_FlagPassesDots ==
    FlagMeetsLexeme =>
        /\ sc.ch # "." => StepOf(AtHead).kwType = StKwNone
        /\ sc.ch = "." => StepOf(AtHead).kwType = sc.kwType /\ ~FlagStylesLexeme

\* b of "new a.b" completes with the class flag still pending and takes its style
C18_Witness ==
    /\ FlagMeetsLexeme /\ sc.ch # "."
    /\ sc.startSeg > 0 /\ CharAt(sc.startSeg - 1) = "."
    /\ Lexeme = <<"b">>
    /\ FlagStylesLexeme
    /\ StepOf(AtHead).styles[sc.startSeg + 1] = sc.kwType

\* the next significant character from position p on: the first character that is
\* not white space (NUL when none)
SignificantFrom(p) ==
    LET sig == {q \in p..(Len(doc) - 1) : ~isspacechar(CharAt(q))}
    IN IF sig = {} THEN NUL ELSE CharAt(CHOOSE q \in sig : \A o \in sig : q <= o)
\* a Dart identifier lexeme in no list completes, not before ':' or '.', with no
\* class, enum or label flag pending, and the next significant character is '('
DartNameBeforeParen ==
    /\ lexer = "dart" /\ LexemeCompletes /\ ListStyle = Unstyled
    /\ sc.ch \notin {":", "."}
    /\ sc.kwType \in {DartKwNone, DartKwReturn}
    /\ SignificantFrom(sc.currentPos) = "("
DartDefinitionContext ==
    LET prev == DartSignificantBefore(sc.startSeg)
    IN sc.kwType # DartKwReturn /\ (IsIdentifierCharEx(prev) \/ prev = "]")

C19_WitnessDefinition ==
    /\ DartNameBeforeParen /\ sc.ch = LF /\ endStyled > 0 /\ sc.startSeg = endStyled
    /\ DartStep(AtHead).styles[sc.startSeg + 1] = SCE_DART_FUNCTION_DEFINITION

\* the record of line l carries the header flag
HasHeader(l) == levels[l + 1] % (2 ^ 16) >= SC_FOLDLEVELHEADERFLAG
\* the line-comment flag, or the import flag, in the line state of line l
RunFlag(kind, l) == IF kind = "comment" THEN BitAnd(lineState[l + 1], 1)
                    ELSE BitAnd(Shr(lineState[l + 1], 1), 1)
\* line l holds a bracket styled as operator
BracketOn(l) ==
    \E p \in LineStart(l)..(LineStart(l + 1) - 1) :
        /\ CharAt(p) \in {"{", "}", "[", "]", "(", ")"}
        /\ styles[p + 1] = StOperator
\* lines i..j are a maximal run of lines with the flag
MaximalRun(kind, i, j) ==
    /\ i <= j
    /\ \A l \in i..j : RunFlag(kind, l) = 1
    /\ i > 0 => RunFlag(kind, i - 1) = 0
    /\ j + 1 < NumLines => RunFlag(kind, j + 1) = 0
\* the records of a run i..j as the claim gives them
RunRecords(i, j) ==
    IF i < j
    THEN /\ RecNext(i) = RecCur(i) + 1 /\ HasHeader(i)
         /\ \A l \in (i + 1)..(j - 1) : RecNext(l) = RecCur(l) /\ ~HasHeader(l)
         /\ RecNext(j) = RecCur(j) - 1
         /\ RecNext(j) = RecCur(i)
    ELSE RecNext(i) = RecCur(i) /\ ~HasHeader(i)
FoldedLines == FoldDone /\ lexer \in {"dart", "haxe"}

CountedStyles ==
    IF lexer = "dart"
    THEN {SCE_DART_COMMENTBLOCK, SCE_DART_COMMENTBLOCKDOC,
          SCE_DART_TRIPLE_RAWSTRING_SQ, SCE_DART_TRIPLE_RAWSTRING_DQ,
          SCE_DART_TRIPLE_STRING_SQ, SCE_DART_TRIPLE_STRING_DQ}
    ELSE {SCE_HAXE_COMMENTBLOCK, SCE_HAXE_COMMENTBLOCKDOC, SCE_HAXE_REGEX,
          SCE_HAXE_STRINGSQ, SCE_HAXE_STRINGDQ, SCE_HAXE_PREPROCESSOR}
CountedOn(l) ==
    \E p \in LineStart(l)..(LineStart(l + 1) - 1) : styles[p + 1] \in CountedStyles

C20_WitnessComment ==
    /\ FoldedLines /\ NumLines > 3
    /\ MaximalRun("comment", 1, 2) /\ HasHeader(0) /\ HasHeader(1)
    /\ RecNext(2) = RecCur(1)

\* what the brace probe reports for line n on the styled buffer: the position of the
\* opening brace that begins line n + 1, or 0
ProbeOn(n) ==
    IF lexer = "dart"
    THEN CheckBraceOnNextLine(Bind(FdIdle), n, SCE_DART_OPERATOR, SCE_DART_TASKMARKER, 0)
    ELSE CheckBraceOnNextLine(Bind(FdIdle), n, SCE_HAXE_OPERATOR, SCE_HAXE_TASKMARKER,
                              SCE_HAXE_PREPROCESSOR)
\* line n has visible content and is neither a line-comment nor an import line, and
\* the probe reports a brace on line n + 1
HangingAfter(n) ==
    /\ n >= 0 /\ n + 1 < NumLines
    /\ \E p \in LineStart(n)..(LineStart(n + 1) - 1) : ~isspacechar(CharAt(p))
    /\ BitAnd(lineState[n + 1], 3) = 0
    /\ ProbeOn(n) # 0
\* the fold scanner after the switch on style of this iteration, and whether the
\* iteration ends its line
FoldSwitchOf(f) == IF lexer = "dart" THEN FoldDartSwitch(f) ELSE FoldHaxeSwitch(f)
FoldAfterSwitch == FoldSwitchOf(FoldAdvance(Bind(fd)))
FoldEndsLine ==
    /\ Folding /\ lexer \in {"dart", "haxe"}
    /\ FoldAfterSwitch.startPos = FoldAfterSwitch.lineStartNext
FoldEndsHangingLine == FoldEndsLine /\ HangingAfter(fd.lineCurrent)
\* the hanging brace is counted at the end of line n, on top of what the characters
\* of line n have added, and the pass goes on after the brace
HangingCounted ==
    FoldEndsHangingLine =>
        LET g == FoldAfterSwitch
            r == FoldStepOf(Bind(fd))
        IN /\ RecordOf(r, fd.lineCurrent) = [cur |-> fd.levelCurrent, next |-> g.levelNext + 1]
           /\ r.levelCurrent = g.levelNext + 1
           /\ r.startPos = ProbeOn(fd.lineCurrent) + 1
\* no iteration takes up a hanging brace, and a pass that starts at its line starts
\* after it
HangingSkipped ==
    /\ (Folding /\ lexer \in {"dart", "haxe"} /\ CharAt(fd.startPos) = "{") =>
          LET n == GetLine(fd.startPos) - 1
          IN HangingAfter(n) => fd.startPos # ProbeOn(n)
    /\ (pc = "idle" /\ lexer \in {"dart", "haxe"} /\ endStyled = Len(doc)
           /\ endFolded < Len(doc) /\ HangingAfter(GetLine(endFolded) - 1)) =>
          \A end \in ChunkEnds(endFolded) :
              LET r == FoldPrologueOf(Bind(FdIdle), endFolded, end - endFolded,
                                      InitStyleAt(endFolded))
              IN /\ r.startPos = ProbeOn(GetLine(endFolded) - 1) + 1
                 /\ r.levelNext = RecNext(GetLine(endFolded) - 1)

\* C21 as stated: Hanging brace is counted exactly once: line n's record gets
\* next = current + 1 plus the other changes on line n, with the header flag, and the
\* brace adds nothing more when line n + 1 is processed, in the same pass or in a
\* pass that starts at line n + 1.
C21_HangingBraceOnce ==
    /\ HangingCounted
    /\ HangingSkipped
    /\ FoldEndsHangingLine =>
          FoldStepOf(Bind(fd)).levels[fd.lineCurrent + 1] % (2 ^ 16) >= SC_FOLDLEVELHEADERFLAG

\* C21: Hanging brace is counted exactly once: as stated, with the header flag
\* exactly when the resulting next level is above the current level, that is unless
\* the other changes on line n lower the level.
C21_HangingBraceOnceHeader ==
    /\ HangingCounted
    /\ HangingSkipped
    /\ FoldEndsHangingLine =>
          LET lev == FoldStepOf(Bind(fd)).levels[fd.lineCurrent + 1]
          IN lev % (2 ^ 16) >= SC_FOLDLEVELHEADERFLAG
                <=> FoldAfterSwitch.levelNext + 1 > fd.levelCurrent

\* a pass is about to start at the line of a hanging brace that an earlier pass
\* counted at the end of the line before
C21_Witness ==
    /\ pc = "idle" /\ lexer \in {"dart", "haxe"} /\ endStyled = Len(doc)
    /\ endFolded > 0 /\ endFolded < Len(doc)
    /\ HangingAfter(GetLine(endFolded) - 1)
    /\ HasHeader(GetLine(endFolded) - 1)
    /\ RecNext(GetLine(endFolded) - 1) = RecCur(GetLine(endFolded) - 1) + 1

DartRawStyles ==
    {SCE_DART_RAWSTRING_SQ, SCE_DART_RAWSTRING_DQ,
     SCE_DART_TRIPLE_RAWSTRING_SQ, SCE_DART_TRIPLE_RAWSTRING_DQ}
DartTransientStyles == {SCE_DART_ESCAPECHAR, SCE_DART_VARIABLE2, SCE_DART_OPERATOR2}
\* the Dart scanner is inside a raw string (a single-line raw string that is still
\* open at a line start has ended with the line)
InDartRaw ==
    /\ Iterating /\ lexer = "dart"
    /\ sc.state \in DartRawStyles
    /\ ~(sc.atLineStart /\ ~IsTripleString(sc.state))
\* the default state meets an r that a quote follows
DartRawOpens ==
    /\ Iterating /\ lexer = "dart"
    /\ ~DartSwitch(AtHead).cont
    /\ DartSwitch(AtHead).state = SCE_DART_DEFAULT
    /\ DartSwitch(AtHead).ch = "r"
    /\ DartSwitch(AtHead).chNext \in {SQ, DQ}
\* the raw style the text at p calls for: triple when the quote at p + 1 comes thrice
DartRawStyleAt(p) ==
    LET q == CharAt(p + 1)
        triple == CharAt(p + 2) = q /\ CharAt(p + 3) = q
    IN IF q = SQ
       THEN (IF triple THEN SCE_DART_TRIPLE_RAWSTRING_SQ ELSE SCE_DART_RAWSTRING_SQ)
       ELSE (IF triple THEN SCE_DART_TRIPLE_RAWSTRING_DQ ELSE SCE_DART_RAWSTRING_DQ)

\* C22: Dart raw strings do no escape or interpolation processing: an r in the default
\* state that a quote follows opens a raw string (triple when two more identical
\* quotes follow); in a raw string neither the backslash nor the dollar sign changes
\* the state, no escape, interpolation-variable or interpolation-operator style is
\* entered, and a single-line raw string closes at the first matching quote, also
\* after a backslash.
C22_RawStrings ==
    /\ DartRawOpens =>
          LET g == DartSwitch(AtHead)
              r == DartStep(AtHead)
              triple == IsTripleString(DartRawStyleAt(g.currentPos))
          IN /\ r.state = DartRawStyleAt(g.currentPos)
             /\ r.startSeg = g.currentPos
             /\ r.currentPos = Min(g.currentPos + (IF triple THEN 4 ELSE 2), sc.endPos)
    /\ InDartRaw =>
          LET g == DartSwitch(AtHead)
              r == DartStep(AtHead)
          IN /\ sc.ch \in {BSL, "$"} =>
                   /\ r.state = sc.state /\ r.startSeg = sc.startSeg
                   /\ r.currentPos = sc.currentPos + 1
             /\ g.state \in {sc.state, SCE_DART_DEFAULT}
             /\ r.state \notin DartTransientStyles
             /\ \A p \in sc.startSeg..(g.startSeg - 1) : g.styles[p + 1] = sc.state
             /\ (~IsTripleString(sc.state) /\ sc.ch = GetStringQuote(sc.state)) =>
                   /\ g.state = SCE_DART_DEFAULT
                   /\ g.startSeg = sc.currentPos + 1
                   /\ g.currentPos = Min(sc.currentPos + 1, sc.endPos)

\* a single-line raw string closes at a quote that follows a backslash
C22_Witness ==
    /\ InDartRaw /\ ~IsTripleString(sc.state)
    /\ sc.ch = GetStringQuote(sc.state) /\ sc.chPrev = BSL
    /\ DartSwitch(AtHead).state = SCE_DART_DEFAULT
\* a dollar sign that a parenthesis follows is met inside a triple raw string
C22_WitnessTriple ==
    /\ InDartRaw /\ IsTripleString(sc.state)
    /\ sc.ch = "$" /\ sc.chNext = "("
    /\ DartStep(AtHead).state = sc.state

DartCookedStyles ==
    {SCE_DART_STRING_SQ, SCE_DART_STRING_DQ, SCE_DART_TRIPLE_STRING_SQ,
     SCE_DART_TRIPLE_STRING_DQ}
\* the default block of this iteration meets a ")" inside a "$(" interpolation
DartInterpolationCloses ==
    /\ Iterating /\ lexer = "dart"
    /\ ~DartSwitch(AtHead).cont
    /\ DartSwitch(AtHead).state = SCE_DART_DEFAULT
    /\ DartSwitch(AtHead).ch = ")"
    /\ DartSwitch(AtHead).simpleStringInterpolation
\* the "$(" that set the flag: the last one before the ")"
LastOpeners ==
    {q \in 0..(DartSwitch(AtHead).currentPos - 2) :
        /\ CharAt(q) = "$" /\ CharAt(q + 1) = "("
        /\ DartSwitch(AtHead).styles[q + 1] = SCE_DART_OPERATOR2
        /\ DartSwitch(AtHead).styles[q + 2] = SCE_DART_OPERATOR2}
LastOpener == CHOOSE q \in LastOpeners : \A o \in LastOpeners : o <= q
\* the style S of the string in which that "$(" was seen, read from the character
\* before the "$" when that is text of the string
OpenerStringStyle == DartSwitch(AtHead).styles[LastOpener]
\* a ")" ends an interpolation whose "$(" follows text of a non-raw string
AtInterpolationEnd ==
    /\ DartInterpolationCloses
    /\ LastOpeners # {} /\ LastOpener > 0
    /\ OpenerStringStyle \in DartCookedStyles

\* C23: Dart parenthesised interpolation resumes the original string style: after "$("
\* is seen in a non-raw string of style S, the style entered after the ")" that ends
\* the interpolation is S, whatever the interpolated expression contains.
C23_ResumesOriginalStyle ==
    AtInterpolationEnd => DartStep(AtHead).state = OpenerStringStyle

\* the comment depth the scanner has stored for the end of line l (0 before line 0)
StoredCommentLevel(l) == IF l < 0 THEN 0 ELSE DartDecodeCommentLevel(lineState[l + 1])
\* on line l the fold pass counts nothing but block comments: no bracket styled as
\* operator, no triple-quoted string, no line-type flag, no hanging brace after it
OnlyCommentsCounted(l) ==
    /\ ~BracketOn(l)
    /\ \A p \in LineStart(l)..(LineStart(l + 1) - 1) :
          styles[p + 1] \notin {SCE_DART_TRIPLE_RAWSTRING_SQ, SCE_DART_TRIPLE_RAWSTRING_DQ,
                               SCE_DART_TRIPLE_STRING_SQ, SCE_DART_TRIPLE_STRING_DQ}
    /\ BitAnd(lineState[l + 1], 3) = 0
    /\ ProbeOn(l) = 0
\* line l holds a character of a block comment
CommentOn(l) ==
    \E p \in LineStart(l)..(LineStart(l + 1) - 1) :
        styles[p + 1] \in {SCE_DART_COMMENTBLOCK, SCE_DART_COMMENTBLOCKDOC}

\* C24: Dart fold pass agrees with the scanner on block-comment depth: the net change
\* FoldDartDoc applies to levelNext over the block-comment characters of a line is
\* the change of the scanner's comment depth as stored in the line states, so over a
\* comment token it is the open depth at each line end inside the comment and 0 once
\* the comment has closed.
C24_FoldMatchesCommentLevel ==
    (FoldDone /\ lexer = "dart") =>
        \A l \in 0..(NumLines - 2) :
            OnlyCommentsCounted(l) =>
                RecNext(l) - RecCur(l) = StoredCommentLevel(l) - StoredCommentLevel(l - 1)

\* the lowercased word that the WinHex scanner completes in this iteration is in one
\* of the three keyword sets
WinHexWordCompletes == lexer = "winhex" /\ LexemeCompletes
WinHexInSets == \E i \in 1..3 : Lexeme \in WinHexKeywordLists[i]
\* nothing but white space stands between the start of the line and the word
WinHexFirstOnLine ==
    \A p \in LineStart(sc.currentLine)..(sc.startSeg - 1) : isspacechar(CharAt(p))
\* what the word and the operator of this iteration add to the next level
WinHexWordChange ==
    IF WinHexWordCompletes /\ WinHexInSets /\ WinHexFirstOnLine
    THEN IF StrStartsWith(Lexeme, <<"i","f">>)
            \/ Lexeme \in {<<"b","e","g","i","n">>, <<"s","e","c","t","i","o","n">>}
         THEN 1
         ELSE IF StrStartsWith(Lexeme, <<"e","n","d">>) THEN -1 ELSE 0
    ELSE 0
WinHexBraceChange ==
    LET g == WinHexSwitch(AtHead)
    IN IF g.state = SCE_WINHEX_DEFAULT
       THEN (IF g.ch = "{" THEN 1 ELSE IF g.ch = "}" THEN -1 ELSE 0)
       ELSE 0
\* the fields of the scanner that are not fold levels
WinHexStyling(c) ==
    <<c.state, c.currentPos, c.startSeg, c.styles, c.visibleChars, c.atLineEnd,
      c.atLineStart, c.currentLine, c.ch, c.chNext, c.lineState>>

\* C25: WinHex keyword and brace folding: a word changes the next level only if its
\* lowercased form is in one of the three keyword sets and it is the first visible
\* token of its line, then by +1 when it starts with "if" or is "begin" or "section"
\* and by -1 when it starts with "end"; each operator "{" adds 1 and each operator "}"
\* takes 1; a fold record is written at a line end, and only when the fold property
\* is true, and the styling does not depend on the property.
C25_WinHexFolding ==
    (Iterating /\ lexer = "winhex") =>
        LET r == WinHexStep(AtHead)
            other == WinHexStep([AtHead EXCEPT !.fold = ~sc.fold])
            e == WinHexDefault(WinHexSwitch(AtHead))
        IN /\ r.levelNext = sc.levelNext + WinHexWordChange + WinHexBraceChange
           /\ IF sc.fold /\ e.atLineEnd
              THEN /\ r.levels = [levels EXCEPT ![e.currentLine + 1] =
                                      FoldRecord(sc.levelCurrent, r.levelNext)]
                   /\ r.levelCurrent = r.levelNext
              ELSE r.levels = levels /\ r.levelCurrent = sc.levelCurrent
           /\ WinHexStyling(other) = WinHexStyling(r)
           /\ sc.fold = foldProp

\* a keyword that is not the first token of its line completes and changes nothing
C25_Witness ==
    /\ Iterating /\ WinHexWordCompletes /\ WinHexInSets /\ ~WinHexFirstOnLine
    /\ StrStartsWith(Lexeme, <<"i","f">>)
    /\ WinHexStep(AtHead).levelNext = sc.levelNext
\* "section" completes at a brace as the first token of its line: two levels up
C25_WitnessSection ==
    /\ Iterating /\ WinHexWordCompletes /\ WinHexFirstOnLine
    /\ Lexeme = <<"s","e","c","t","i","o","n">> /\ sc.ch = "{"
    /\ WinHexStep(AtHead).levelNext = sc.levelNext + 2
\* a word that starts with "end" closes a level with the fold property off
C25_WitnessEnd ==
    /\ Iterating /\ WinHexWordCompletes /\ WinHexFirstOnLine /\ ~sc.fold
    /\ Lexeme = <<"e","n","d","i","f">>
    /\ WinHexStep(AtHead).levelNext = sc.levelNext - 1

\* C26: Fold levels never drop below the base: the current level and the next level
\* of every fold record written by FoldDartDoc, FoldHaxeDoc and ColouriseWinHexDoc
\* are at least SC_FOLDLEVELBASE.
C26_LevelsAtLeastBase ==
    \A l \in Lines :
        Written(l) => RecCur(l) >= SC_FOLDLEVELBASE /\ RecNext(l) >= SC_FOLDLEVELBASE

\* C27: Dart comment-level invariant: in a scan started at offset 0, at the start of
\* every loop iteration commentLevel is at least 1 in a block-comment state and 0 in
\* every other state, and the comment-level bits of a written line state are non-zero
\* exactly for the lines that end inside a block comment.
C27_CommentLevelInvariant ==
    (lexer = "dart" /\ OneCall /\ Iterating) =>
        /\ IF InDartComment(sc) THEN sc.commentLevel >= 1 ELSE sc.commentLevel = 0
        /\ DartWritesLineState =>
              (DartDecodeCommentLevel(DartWrittenLineState) # 0
                  <=> InDartComment(DartBeforeLineEnd))

\* the string styles of the selected lexer that an interpolation can be opened from
InterpolatingStyles == IF lexer = "dart" THEN DartCookedStyles ELSE HaxeStringStyles
\* an iteration of a Dart or Haxe scan that started at offset 0
ScanFromStart == OneCall /\ Iterating /\ lexer \in {"dart", "haxe"}
\* the default block of this iteration meets a "}"
BraceInDefault ==
    /\ ScanFromStart
    /\ ~SwitchOf(AtHead).cont
    /\ SwitchOf(AtHead).state = StDefault
    /\ SwitchOf(AtHead).ch = "}"

\* C28: Interpolation stack shape: in a Dart or Haxe scan started at offset 0 the
\* bottom entry of a non-empty nested-state stack is a string style; a pop that
\* empties the stack resumes a string style, and a "}" met in the default state with
\* an empty stack is an ordinary operator that pops nothing.
C28_StackShape ==
    /\ ScanFromStart =>
          (sc.nestedState # <<>> => sc.nestedState[1] \in InterpolatingStyles)
    /\ BraceInDefault =>
          LET g == SwitchOf(AtHead)
              r == StepOf(AtHead)
          IN IF Len(g.nestedState) = 0
             THEN /\ r.nestedState = <<>>
                  /\ r.state = StOperator /\ r.startSeg = g.currentPos
                  /\ r.currentPos = g.currentPos + 1
             ELSE /\ r.nestedState = SubSeq(g.nestedState, 1, Len(g.nestedState) - 1)
                  /\ Len(g.nestedState) = 1 =>
                        /\ r.state \in InterpolatingStyles
                        /\ r.styles[g.currentPos + 1] = StOperator2

\* a "}" empties the stack after an inner pair of braces of the interpolation has
\* pushed and popped a default marker
C28_Witness ==
    /\ BraceInDefault
    /\ Len(sc.nestedState) = 1
    /\ StepOf(AtHead).nestedState = <<>>
    /\ StepOf(AtHead).state \in InterpolatingStyles
    /\ \E q \in 0..(sc.currentPos - 1) : \E p \in (q + 1)..(sc.currentPos - 1) :
          /\ CharAt(q) = "{" /\ StyleSoFar(q) = StOperator2
          /\ CharAt(p) = "}" /\ StyleSoFar(p) = StOperator
\* a "}" is met in the default state with an empty stack
C28_WitnessPlain ==
    /\ BraceInDefault /\ SwitchOf(AtHead).nestedState = <<>>
    /\ StepOf(AtHead).state = StOperator

StVariable2 == IF lexer = "dart" THEN SCE_DART_VARIABLE2 ELSE SCE_HAXE_VARIABLE2
\* the Dart or Haxe scanner enters an iteration at the first character of a line
AtLineHead ==
    /\ Iterating /\ lexer \in {"dart", "haxe"}
    /\ sc.currentPos = LineStart(GetLine(sc.currentPos))

\* C29: Transient lexemes never span a line break: when the cursor of the Dart or Haxe
\* scanner is at the first character of a line, the state on entry is neither the
\* escape-sequence style nor the interpolation-variable style, and the expected
\* category, the visible-character count and the pending line type are at their
\* reset values.
C29_TransientEndsWithLine ==
    AtLineHead =>
        /\ sc.atLineStart
        /\ sc.state \notin {StEscape, StVariable2}
        /\ sc.kwType = StKwNone
        /\ sc.visibleChars = 0
        /\ sc.lineStateLineType = 0

\* a line starts right after an escape sequence or an interpolation variable that
\* the line break has ended
C29_Witness ==
    /\ AtLineHead /\ sc.currentPos > 1
    /\ styles[sc.currentPos - 1] \in {StEscape, StVariable2}
    /\ sc.state \notin {StEscape, StVariable2}
\* the line break resets a pending category
C29_WitnessReset ==
    /\ Iterating /\ lexer \in {"dart", "haxe"} /\ sc.atLineEnd
    /\ DefaultOf(SwitchOf(AtHead)).kwType # StKwNone
    /\ StepOf(AtHead).kwType = StKwNone /\ StepOf(AtHead).lineStateLineType = 0
    /\ StepOf(AtHead).currentPos = LineStart(sc.currentLine + 1)

====

